---- MODULE Spec2Model ----
(***************************************************************************)
(* Model of the conversational tool-orchestration engine of                *)
(* src/src/routes/message_routes.py: send_map_message (lock acquisition,   *)
(* persistence of the system and user messages, start of the run),         *)
(* process_chat_interaction_task (the bounded loop of LLM calls and tool   *)
(* dispatch) and cancel_map_message, over the two Redis keys               *)
(* chat_lock:<conversation id> and messages:<map id>:cancelled and the     *)
(* table chat_completion_messages.                                         *)
(*                                                                         *)
(* Every Redis command is one atomic step of the Redis server; requests    *)
(* may be served by different worker processes, so the steps of two        *)
(* requests interleave between any two commands.  The LLM, the databases   *)
(* and the external services are the environment: their answers are drawn  *)
(* with \E from small sets.  The content of tool call j of an assistant    *)
(* turn is read by the loop only in iteration j (lines 1060-1063), so it   *)
(* is drawn when that iteration runs.                                      *)
(***************************************************************************)
EXTENDS Integers, Sequences, FiniteSets, TLC

\* ------------------------------------------------------------ bounds
\* Tool calls in one assistant turn (more are possible; the loop treats
\* them alike).
MaxCalls == 2
\* Rounds in which the LLM of SpecLoop answers with tool calls.
MaxToolTurns == 2
\* System messages generated by map_state.get_system_messages for one request.
MaxSysMsgs == 1
\* Tool calls in one assistant turn, rounds with tool calls and generated
\* system messages in the two-request specification Spec.
ConcCalls == 1
ConcToolTurns == 1
ConcSysMsgs == 0
\* cancel_map_message requests in one behaviour.
MaxCancels == 1

\* ------------------------------------------------- program constants
\* for i in range(25)
MaxRounds == 25

Reqs == {"r1", "r2"}
Convs == {"c1", "c2"}
Maps == {"m1", "m2"}
NoReq == "none"
NoId == <<>>

VARIABLES
    lock,        \* Redis chat_lock:<conv>: NoReq when absent, else the request that set it
    lockSets,    \* SET commands issued on chat_lock:<conv>; each starts a new 30 s TTL (history)
    cancelled,   \* Redis messages:<map>:cancelled: TRUE when the key is present
    cancels,     \* cancel_map_message calls made per map (history)
    log,         \* chat_completion_messages per conversation, in creation order
    conv,        \* conversation id of each request
    mapId,       \* map id of each request
    awaitEnd,    \* await_end of each request
    pc,          \* position of each request / run
    http,        \* HTTP status returned for each request ("none" while open)
    round,       \* loop variable i of each run
    ncalls,      \* len(assistant_message.tool_calls) of the current round
    k,           \* index of the tool call being processed (1-based)
    llmCalls,    \* LLM completions requested by each run (history)
    context,     \* messages= of the completion each run waits for, <<>> otherwise
    notices,     \* kue_notify_error calls of each run, in order
    llmError,    \* the failure of the run's LLM call, "none" otherwise (history)
    exit,        \* how each run left the loop
    fault,       \* the exception that aborted each run, "none" otherwise
    hpc,         \* position inside the handler of the tool call being followed
    hcall,       \* that tool call: its arguments and what its query is
    pgOpen,      \* the connection to the user's external database is open
    pgStmts,     \* statements sent to the external database by this call, in order
    appWrites,   \* writes of this call to the application database, in order
    toolResult,  \* the handler's tool_result dict
    persisted,   \* tool messages stored for this call, in order
    layers       \* the layers column of the map's row in user_mundiai_maps

\* the state of the two requests and their runs
runVars == <<lock, lockSets, cancelled, cancels, log, conv, mapId, awaitEnd,
             pc, http, round, ncalls, k, llmCalls, context, notices, llmError, exit,
             fault>>
\* the state of one tool call followed statement by statement
handlerVars == <<hpc, hcall, pgOpen, pgStmts, appWrites, toolResult, persisted,
                 layers>>

vars == <<lock, lockSets, cancelled, cancels, log, conv, mapId, awaitEnd,
          pc, http, round, ncalls, k, llmCalls, context, notices, llmError, exit,
          fault, hpc, hcall, pgOpen, pgStmts, appWrites, toolResult,
          persisted, layers>>

\* the variables of a request that no step changes after Init
reqConst == <<conv, mapId, awaitEnd>>
\* the loop-local variables of a run
loopVars == <<round, ncalls, k>>
\* what a run records about its LLM calls and its end
histVars == <<llmCalls, context, notices, llmError, exit, fault>>

\* ------------------------------------------------------------ messages
\* message_json of one row: role, the ids of the assistant turn's tool
\* calls, the tool_call_id and the status field of a tool result.
UserMsg == [role |-> "user", calls |-> <<>>, id |-> NoId, status |-> "none"]
SystemMsg == [role |-> "system", calls |-> <<>>, id |-> NoId, status |-> "none"]
AssistantMsg(ids) == [role |-> "assistant", calls |-> ids, id |-> NoId, status |-> "none"]
ToolMsg(tcid, st) == [role |-> "tool", calls |-> <<>>, id |-> tcid, status |-> st]

\* The opaque id the LLM gives tool call j of round i of run r: unique.
CallId(r, i, j) == <<r, i, j>>
CallIds(r, i, n) == [j \in 1..n |-> CallId(r, i, j)]

ReplaceChatCompletionMessages(lg, c, m) == [lg EXCEPT ![c] = <<m>>]

\* INSERT INTO chat_completion_messages (one row appended)
add_chat_completion_message(lg, c, m) == [lg EXCEPT ![c] = Append(@, m)]

RECURSIVE Repeat(_, _)
Repeat(m, n) == IF n = 0 THEN <<>> ELSE Append(Repeat(m, n - 1), m)

\* no tool call is being followed; tool_result = {}
NoCall == [name |-> "none"]
NoResult == [status |-> "none", error |-> "none"]
\* layers = Column(ARRAY(String(12))): NULL until the first layer is attached
NullLayers == [null |-> TRUE, ids |-> <<>>]

\* --------------------------------------------------------------- Init
Init ==
    /\ lock = [c \in Convs |-> NoReq]
    /\ lockSets = [c \in Convs |-> 0]
    /\ cancelled = [m \in Maps |-> FALSE]
    /\ cancels = [m \in Maps |-> 0]
    /\ log = [c \in Convs |-> <<>>]
    /\ conv \in [Reqs -> Convs]
    /\ mapId \in [Reqs -> Maps]
    /\ conv["r1"] = "c1"
    /\ mapId["r1"] = "m1"
    /\ awaitEnd \in [Reqs -> BOOLEAN]
    /\ pc = [r \in Reqs |-> "idle"]
    /\ http = [r \in Reqs |-> "none"]
    /\ round = [r \in Reqs |-> 0]
    /\ ncalls = [r \in Reqs |-> 0]
    /\ k = [r \in Reqs |-> 0]
    /\ llmCalls = [r \in Reqs |-> 0]
    /\ context = [r \in Reqs |-> <<>>]
    /\ notices = [r \in Reqs |-> <<>>]
    /\ llmError = [r \in Reqs |-> "none"]
    /\ exit = [r \in Reqs |-> "none"]
    /\ fault = [r \in Reqs |-> "none"]
    /\ hpc = "idle"
    /\ hcall = NoCall
    /\ pgOpen = FALSE
    /\ pgStmts = <<>>
    /\ appWrites = <<>>
    /\ toolResult = NoResult
    /\ persisted = <<>>
    /\ layers = NullLayers

\* ---------------------------------------------------- send_map_message
\* one lock for every conversation
LockHeldAnywhere(c) == \E d \in Convs : lock[d] # NoReq
LockHeldNever(c) == FALSE
\* redis.get(lock_key): 409 when the key is present
LockHeld(c) == lock[c] # NoReq

SendCheckLockRenewing(r) ==
    /\ pc[r] = "idle"
    /\ IF LockHeld(conv[r])
         THEN /\ pc' = [pc EXCEPT ![r] = "rejected"]
              /\ http' = [http EXCEPT ![r] = "409"]
              /\ lockSets' = [lockSets EXCEPT ![conv[r]] = @ + 1]
         ELSE /\ pc' = [pc EXCEPT ![r] = "acquire"]
              /\ UNCHANGED <<http, lockSets>>
    /\ UNCHANGED <<lock, cancelled, cancels, log, reqConst, handlerVars, loopVars,
                   histVars>>

SendCheckLock(r) ==
    /\ pc[r] = "idle"
    /\ IF LockHeld(conv[r])
         THEN /\ pc' = [pc EXCEPT ![r] = "rejected"]
              /\ http' = [http EXCEPT ![r] = "409"]
         ELSE /\ pc' = [pc EXCEPT ![r] = "acquire"]
              /\ http' = http
    /\ UNCHANGED <<lock, lockSets, cancelled, cancels, log, reqConst, handlerVars, loopVars,
                   histVars>>

\* redis.set(lock_key, "locked", ex=30): the key the set writes
LockAfterSet(r) == [lock EXCEPT ![conv[r]] = r]

SendSetLock(r) ==
    /\ pc[r] = "acquire"
    /\ lock' = LockAfterSet(r)
    /\ lockSets' = [lockSets EXCEPT ![conv[r]] = @ + 1]
    /\ pc' = [pc EXCEPT ![r] = "setup"]
    /\ UNCHANGED <<cancelled, cancels, log, reqConst, handlerVars, http, loopVars,
                   histVars>>

\* The rows send_map_message inserts: the generated system messages, then
\* the user's message.
SendRows(nsys) == Append(Repeat(SystemMsg, nsys), UserMsg)

\* Insert the rows, then start the run: awaited (await_end) or as a
\* background task, in which case the response is returned first.
SendPersistAndStart(r, maxSys) ==
    /\ pc[r] = "setup"
    /\ \E nsys \in 0..maxSys :
         log' = [log EXCEPT ![conv[r]] = @ \o SendRows(nsys)]
    /\ pc' = [pc EXCEPT ![r] = "check1"]
    /\ http' = [http EXCEPT ![r] = IF awaitEnd[r] THEN "none" ELSE "200"]
    /\ UNCHANGED <<lock, lockSets, cancelled, cancels, reqConst, handlerVars, loopVars,
                   histVars>>

\* ------------------------------------- process_chat_interaction_task
\* the for loop is exhausted
\* the transcript as the user layer sees it, system rows left out
get_all_conversation_messages_without_system(lg) ==
    SelectSeq(lg, LAMBDA msg : msg.role # "system")
\* get_all_conversation_messages: every row of the conversation, system
\* rows included, ORDER BY created_at ASC (lines 249-274)
get_all_conversation_messages(lg) == lg
\* messages=[{"role": "system", "content": get_system_prompt()}]
\*          + openai_messages (lines 773-781, 991-999)
SystemPrompt ==
    [role |-> "system", calls |-> <<>>, id |-> <<"prompt">>, status |-> "none"]
openai_messages(lg) == <<SystemPrompt>> \o get_all_conversation_messages(lg)

LoopExhaustedOneLate(i) == i > MaxRounds
LoopExhausted(i) == i >= MaxRounds

\* redis.get(f"messages:{map_id}:cancelled")
CancelSeen(r) == cancelled[mapId[r]]

LoopTopNoCheckpoint(r) ==
    /\ pc[r] = "check1"
    /\ IF LoopExhausted(round[r])
         THEN /\ pc' = [pc EXCEPT ![r] = "unlock"]
              /\ exit' = [exit EXCEPT ![r] = "cap"]
              /\ UNCHANGED <<llmCalls, context>>
         ELSE /\ pc' = [pc EXCEPT ![r] = "llm"]
              /\ llmCalls' = [llmCalls EXCEPT ![r] = @ + 1]
              /\ context' = [context EXCEPT ![r] = openai_messages(log[conv[r]])]
              /\ exit' = exit
    /\ UNCHANGED <<lock, lockSets, cancelled, cancels, log, reqConst, handlerVars, http, loopVars,
                   notices, llmError, fault>>

\* Top of a round: the loop ends when range(25) is exhausted; otherwise the
\* first checkpoint reads the flag, and when it is absent the transcript is
\* fetched and the LLM call is issued.
LoopTop(r) ==
    /\ pc[r] = "check1"
    /\ IF LoopExhausted(round[r])
         THEN /\ pc' = [pc EXCEPT ![r] = "unlock"]
              /\ exit' = [exit EXCEPT ![r] = "cap"]
              /\ UNCHANGED <<llmCalls, context>>
         ELSE IF CancelSeen(r)
           THEN /\ pc' = [pc EXCEPT ![r] = "consume1"]
                /\ UNCHANGED <<exit, llmCalls, context>>
           ELSE /\ pc' = [pc EXCEPT ![r] = "llm"]
                /\ llmCalls' = [llmCalls EXCEPT ![r] = @ + 1]
                /\ context' = [context EXCEPT ![r] = openai_messages(log[conv[r]])]
                /\ exit' = exit
    /\ UNCHANGED <<lock, lockSets, cancelled, cancels, log, reqConst, handlerVars, http, loopVars,
                   notices, llmError, fault>>

\* redis.delete(f"messages:{map_id}:cancelled"); break
ConsumeCancel(r) ==
    /\ pc[r] \in {"consume1", "consume2"}
    /\ cancelled' = [cancelled EXCEPT ![mapId[r]] = FALSE]
    /\ pc' = [pc EXCEPT ![r] = "unlock"]
    /\ exit' = [exit EXCEPT ![r] = "cancelled"]
    /\ UNCHANGED <<lock, lockSets, cancels, log, reqConst, handlerVars, http, loopVars,
                   llmCalls, context, notices, llmError, fault>>

\* client.chat.completions.create returns an assistant turn with n tool
\* calls.  The LLM answers with tool calls in the first maxTurns rounds only.
LlmReturns(r, maxTurns, maxCalls) ==
    /\ pc[r] = "llm"
    /\ \E n \in 0..maxCalls :
         /\ n > 0 => round[r] < maxTurns
         /\ ncalls' = [ncalls EXCEPT ![r] = n]
    /\ pc' = [pc EXCEPT ![r] = "check2"]
    /\ context' = [context EXCEPT ![r] = <<>>]
    /\ UNCHANGED <<lock, lockSets, cancelled, cancels, log, reqConst, handlerVars, http, round, k,
                   llmCalls, notices, llmError, exit, fault>>

\* The failures of the LLM call: an APIError with code
\* context_length_exceeded, any other APIError, any other exception.
LlmErrors == {"context_length_exceeded", "api_error", "exception"}

NoticeAlwaysGeneric(err) == "generic_connecting"

\* the text kue_notify_error is called with
NoticeFor(err) ==
    IF err = "context_length_exceeded" THEN "context_length"
    ELSE IF err = "api_error" THEN "generic_connecting"
    ELSE "generic_bug"

\* except APIError / except Exception: one notification, then break
LlmFails(r) ==
    /\ pc[r] = "llm"
    /\ \E err \in LlmErrors :
         /\ llmError' = [llmError EXCEPT ![r] = err]
         /\ notices' = [notices EXCEPT ![r] = Append(@, NoticeFor(err))]
    /\ pc' = [pc EXCEPT ![r] = "unlock"]
    /\ exit' = [exit EXCEPT ![r] = "llm_failed"]
    /\ context' = [context EXCEPT ![r] = <<>>]
    /\ UNCHANGED <<lock, lockSets, cancelled, cancels, log, reqConst, handlerVars, http, loopVars,
                   llmCalls, fault>>

AfterResponseStoresFirst(r) ==
    /\ pc[r] = "check2"
    /\ log' = add_chat_completion_message(log, conv[r],
                  AssistantMsg(CallIds(r, round[r], ncalls[r])))
    /\ IF CancelSeen(r)
         THEN /\ pc' = [pc EXCEPT ![r] = "consume2"]
              /\ exit' = exit
         ELSE IF ncalls[r] = 0
           THEN /\ pc' = [pc EXCEPT ![r] = "unlock"]
                /\ exit' = [exit EXCEPT ![r] = "completed"]
           ELSE /\ pc' = [pc EXCEPT ![r] = "project"]
                /\ exit' = exit
    /\ UNCHANGED <<lock, lockSets, cancelled, cancels, reqConst, handlerVars, http, loopVars,
                   llmCalls, context, notices, llmError, fault>>

\* the loop goes on to the tool calls of a turn that has none
AfterResponseWithoutBreak(r) ==
    /\ pc[r] = "check2"
    /\ IF CancelSeen(r)
         THEN /\ pc' = [pc EXCEPT ![r] = "consume2"]
              /\ UNCHANGED <<log, exit>>
         ELSE /\ log' = add_chat_completion_message(log, conv[r],
                            AssistantMsg(CallIds(r, round[r], ncalls[r])))
              /\ pc' = [pc EXCEPT ![r] = "project"]
              /\ exit' = exit
    /\ UNCHANGED <<lock, lockSets, cancelled, cancels, reqConst, handlerVars, http, loopVars,
                   llmCalls, context, notices, llmError, fault>>

\* Second checkpoint, right after the response; when the flag is absent the
\* assistant message is stored, and the loop ends if it has no tool calls.
AfterResponse(r) ==
    /\ pc[r] = "check2"
    /\ IF CancelSeen(r)
         THEN /\ pc' = [pc EXCEPT ![r] = "consume2"]
              /\ UNCHANGED <<log, exit>>
         ELSE /\ log' = add_chat_completion_message(log, conv[r],
                            AssistantMsg(CallIds(r, round[r], ncalls[r])))
              /\ IF ncalls[r] = 0
                   THEN /\ pc' = [pc EXCEPT ![r] = "unlock"]
                        /\ exit' = [exit EXCEPT ![r] = "completed"]
                   ELSE /\ pc' = [pc EXCEPT ![r] = "project"]
                        /\ exit' = exit
    /\ UNCHANGED <<lock, lockSets, cancelled, cancels, reqConst, handlerVars, http, loopVars,
                   llmCalls, context, notices, llmError, fault>>

\* The HTTP status of a request whose awaited run raised exception f; a
\* background run raises after the response was returned.
HttpOnRaise(r, f) ==
    IF ~awaitEnd[r] THEN http[r]
    ELSE IF f = "unknown_tool" THEN "400" ELSE "500"

\* An exception leaves process_chat_interaction_task: nothing after the
\* raise runs, line 1995 included.
Raise(r, f) ==
    /\ pc' = [pc EXCEPT ![r] = "aborted"]
    /\ fault' = [fault EXCEPT ![r] = f]
    /\ exit' = [exit EXCEPT ![r] = "raised"]
    /\ http' = [http EXCEPT ![r] = HttpOnRaise(r, f)]

FetchProjectIdRenewingLock(r) ==
    /\ pc[r] = "project"
    /\ pc' = [pc EXCEPT ![r] = "tools"]
    /\ k' = [k EXCEPT ![r] = 1]
    /\ lock' = LockAfterSet(r)
    /\ lockSets' = [lockSets EXCEPT ![conv[r]] = @ + 1]
    /\ UNCHANGED <<cancelled, cancels, log, reqConst, handlerVars, http, round,
                   ncalls, histVars>>

\* SELECT project_id FROM user_mundiai_maps WHERE id = map_id; assert row is
\* not None.  The row exists: chat_completion_messages.map_id is a foreign
\* key to it (models.py) and send_map_message has just inserted the user's
\* message with this map_id.
FetchProjectId(r) ==
    /\ pc[r] = "project"
    /\ pc' = [pc EXCEPT ![r] = "tools"]
    /\ k' = [k EXCEPT ![r] = 1]
    /\ UNCHANGED <<lock, lockSets, cancelled, cancels, log, reqConst, handlerVars, http, round,
                   ncalls, histVars>>

LockAfterDeleteIfBackground(r) ==
    IF awaitEnd[r] THEN lock ELSE [lock EXCEPT ![conv[r]] = NoReq]

\* redis.delete(f"chat_lock:{conversation.id}"): the key after the delete
LockAfterDelete(r) == [lock EXCEPT ![conv[r]] = NoReq]

\* Line 1995, after the loop; an awaited request then returns its response.
Unlock(r) ==
    /\ pc[r] = "unlock"
    /\ lock' = LockAfterDelete(r)
    /\ pc' = [pc EXCEPT ![r] = "done"]
    /\ http' = [http EXCEPT ![r] = "200"]
    /\ UNCHANGED <<lockSets, cancelled, cancels, log, reqConst, handlerVars, loopVars, histVars>>

\* ------------------------------------------------- cancel_map_message
\* redis.set(f"messages:{map_id}:cancelled", "true", ex=300)
RECURSIVE Total(_, _)
Total(f, S) ==
    IF S = {} THEN 0
    ELSE LET x == CHOOSE y \in S : TRUE IN f[x] + Total(f, S \ {x})

SetCancelled(m) ==
    /\ cancels' = [cancels EXCEPT ![m] = @ + 1]
    /\ cancelled' = [cancelled EXCEPT ![m] = TRUE]
    /\ UNCHANGED <<lock, lockSets, log, reqConst, handlerVars, pc, http, loopVars, histVars>>

CancelMapMessage(m) ==
    /\ Total(cancels, Maps) < MaxCancels
    /\ SetCancelled(m)

\* -------------------------------------------------------- Redis expiry
\* the 30 s TTL of the lock key runs out
LockExpires(c) ==
    /\ lock[c] # NoReq
    /\ lock' = [lock EXCEPT ![c] = NoReq]
    /\ UNCHANGED <<lockSets, cancelled, cancels, log, reqConst, handlerVars, pc, http, loopVars,
                   histVars>>

\* the 300 s TTL of the cancellation key runs out
CancelExpires(m) ==
    /\ cancelled[m]
    /\ cancelled' = [cancelled EXCEPT ![m] = FALSE]
    /\ UNCHANGED <<lock, lockSets, cancels, log, reqConst, handlerVars, pc, http, loopVars, histVars>>

\* ------------------------------------------------------- tool dispatch
\* Names the LLM may put in a tool call.  The pydantic registry and the
\* geoprocessing tool list are populated outside this file.
StaticTools == {"bloom_study", "new_layer_from_postgis", "add_layer_to_map",
                "query_duckdb_sql", "set_layer_style", "query_postgis_database"}
PydanticToolCalls == {"pyd_tool"}
GeoprocessingNames == {"native_buffer"}
ToolNames == StaticTools \cup PydanticToolCalls \cup GeoprocessingNames
                 \cup {"made_up_tool"}

\* The branch of the if/elif chain that takes a function name: the pydantic
\* registry first, then the static tools, then the geoprocessing tools.
\* the chain with the tests of the static names in front
function_branch_static_first(name, registered, geoprocessing) ==
    IF name \in StaticTools THEN name
    ELSE IF registered THEN "pydantic"
    ELSE IF geoprocessing THEN "geoprocessing"
    ELSE "unsupported"
\* registered: function_name in pydantic_tool_calls (line 1066, ends with
\* continue); geoprocessing: function_name in geoprocessing_function_names
\* (line 1970)
function_branch(name, registered, geoprocessing) ==
    IF registered THEN "pydantic"
    ELSE IF name \in StaticTools THEN name
    ELSE IF geoprocessing THEN "geoprocessing"
    ELSE "unsupported"
Resolve(name) ==
    function_branch(name, name \in PydanticToolCalls, name \in GeoprocessingNames)

\* tool_call.function.arguments: not JSON, JSON null, or a JSON object
ArgsJson == {"bad_json", "null", "object"}

\* What processing one tool call ends in: a tool result with a status
\* field, or an exception that leaves the loop.
Result(st) == [fault |-> "none", status |-> st]
Raises(f) == [fault |-> f, status |-> "none"]

\* answers of a lookup in the application database
Lookups == {"db_error", "not_found", "found"}

\* Lines 1066-1109.  ArgModel(**(tool_args or {})) and fn are each inside
\* a try whose except builds an error result.
PydanticEnvs == [valid : BOOLEAN, fn : {"raises", "success", "error"}]
PydanticTool(json, e) ==
    IF ~e.valid THEN Result("error")
    ELSE IF e.fn = "raises" THEN Result("error")
    ELSE Result(e.fn)

\* Lines 1118-1279.  tool_args.get on JSON null raises AttributeError.
BloomEnvs == [address : {"missing", "given"}, geocode : {"none", "coords"},
              db : {"error", "ok"}]
BloomStudy(json, e) ==
    IF json = "null" THEN Raises("null_arguments")
    ELSE IF e.address = "missing" THEN Result("error")
    ELSE IF e.geocode = "none" THEN Result("error")
    ELSE IF e.db = "error" THEN Result("error")
    ELSE Result("success")

\* Lines 1281-1596.  query.rstrip() runs before the check for missing
\* parameters; the connection lookup is outside the try.
NewLayerArgs == [connection : {"missing", "given"},
                 query : {"missing", "empty", "given"}]
NewLayerEnvs == [lookup : Lookups, pg : {"fails", "ok"}]
NewLayerFromPostgisResult(json, a, e) ==
    IF json = "null" THEN Raises("null_arguments")
    ELSE IF a.query = "missing" THEN Raises("missing_query")
    ELSE IF a.connection = "missing" \/ a.query = "empty" THEN Result("error")
    ELSE IF e.lookup = "db_error" THEN Raises("db_error")
    ELSE IF e.lookup = "not_found" THEN Result("error")
    ELSE IF e.pg = "fails" THEN Result("error")
    ELSE Result("success")

\* Lines 1597-1653.  No try: a failing statement raises.  The status of
\* the success result is a sentence, not "success".
AddLayerEnvs == [lookup : Lookups, update : {"db_error", "ok"}]
AddLayerToMapResult(json, e) ==
    IF json = "null" THEN Raises("null_arguments")
    ELSE IF e.lookup = "db_error" THEN Raises("db_error")
    ELSE IF e.lookup = "not_found" THEN Result("error")
    ELSE IF e.update = "db_error" THEN Raises("db_error")
    ELSE Result("layer_added_sentence")

\* Lines 1654-1736.  tool_args.get("layer_ids", [None])[0] raises on an
\* empty list and on null; the lookup is outside the try.
DuckdbArgs == [layer_ids : {"missing", "null", "empty", "given"}]
DuckdbEnvs == [lookup : Lookups,
               exec : {"http_exception", "exception", "too_large", "ok"}]
QueryDuckdbSqlResult(json, a, e) ==
    IF json = "null" THEN Raises("null_arguments")
    ELSE IF a.layer_ids \in {"null", "empty"} THEN Raises("bad_layer_ids")
    ELSE IF e.lookup = "db_error" THEN Raises("db_error")
    ELSE IF e.lookup = "not_found" \/ a.layer_ids = "missing" THEN Result("error")
    ELSE IF e.exec = "ok" THEN Result("success")
    ELSE Result("error")

\* Lines 1737-1807.  Everything after the parameter check is inside the try.
StyleArgs == [params : {"missing", "bad_style_json", "given"}]
StyleEnvs == [lookup : Lookups, style : {"fails", "ok"}]
SetLayerStyleResult(json, a, e) ==
    IF json = "null" THEN Raises("null_arguments")
    ELSE IF a.params = "missing" THEN Result("error")
    ELSE IF a.params = "bad_style_json" THEN Result("error")
    ELSE IF e.lookup # "found" THEN Result("error")
    ELSE IF e.style = "fails" THEN Result("error")
    ELSE Result("success")

\* Lines 1808-1968.  The connection lookup is outside the try; the LIMIT
\* check and the query are inside it.
PostgisQueryArgs == [params : {"missing", "given"},
                     limit : {"none", "over", "ok"}]
PostgisQueryEnvs == [lookup : Lookups,
                     pg : {"connect_fails", "query_fails", "no_rows",
                           "too_large", "ok"}]
QueryPostgisDatabaseResult(json, a, e) ==
    IF json = "null" THEN Raises("null_arguments")
    ELSE IF a.params = "missing" THEN Result("error")
    ELSE IF e.lookup = "db_error" THEN Raises("db_error")
    ELSE IF e.lookup = "not_found" THEN Result("error")
    ELSE IF a.limit \in {"none", "over"} THEN Result("error")
    ELSE IF e.pg \in {"no_rows", "ok"} THEN Result("success")
    ELSE Result("error")

\* run_geoprocessing_tool, lines 495-727.  tool_args.copy() is outside the
\* try; every failure inside it returns an error result.
GeoEnvs == {"layer_unresolved", "non_200", "not_uploaded", "exception", "ok"}
RunGeoprocessingTool(json, e) ==
    IF json = "null" THEN Raises("null_arguments")
    ELSE IF e = "ok" THEN Result("success")
    ELSE Result("error")

\* Line 1063, json.loads(tool_call.function.arguments), runs before the
\* handler is chosen.
ParseThen(json, out) == IF json = "bad_json" THEN Raises("bad_json") ELSE out

FinishInReverseOrder(r, out) ==
    IF out.fault # "none"
      THEN /\ Raise(r, out.fault)
           /\ UNCHANGED <<log, loopVars>>
      ELSE /\ log' = add_chat_completion_message(log, conv[r],
                         ToolMsg(CallId(r, round[r], ncalls[r] + 1 - k[r]),
                                 out.status))
           /\ IF k[r] = ncalls[r]
                THEN /\ round' = [round EXCEPT ![r] = @ + 1]
                     /\ pc' = [pc EXCEPT ![r] = "check1"]
                     /\ k' = [k EXCEPT ![r] = 0]
                ELSE /\ k' = [k EXCEPT ![r] = @ + 1]
                     /\ UNCHANGED <<round, pc>>
           /\ UNCHANGED <<ncalls, fault, exit, http>>

\* What the loop does with the outcome of tool call k: store the tool
\* message and go on with the next call or the next round, or unwind.
Finish(r, out) ==
    IF out.fault # "none"
      THEN /\ Raise(r, out.fault)
           /\ UNCHANGED <<log, loopVars>>
      ELSE /\ log' = add_chat_completion_message(log, conv[r],
                         ToolMsg(CallId(r, round[r], k[r]), out.status))
           /\ IF k[r] = ncalls[r]
                THEN /\ round' = [round EXCEPT ![r] = @ + 1]
                     /\ pc' = [pc EXCEPT ![r] = "check1"]
                     /\ k' = [k EXCEPT ![r] = 0]
                ELSE /\ k' = [k EXCEPT ![r] = @ + 1]
                     /\ UNCHANGED <<round, pc>>
           /\ UNCHANGED <<ncalls, fault, exit, http>>

\* the variables no tool call changes
toolFrame == <<lock, lockSets, cancelled, cancels, reqConst, handlerVars, llmCalls, context, notices, llmError>>

Dispatching(r, branch) ==
    /\ pc[r] = "tools"
    /\ \E name \in ToolNames : Resolve(name) = branch

PydanticToolCall(r) ==
    /\ Dispatching(r, "pydantic")
    /\ \E json \in ArgsJson, e \in PydanticEnvs :
         Finish(r, ParseThen(json, PydanticTool(json, e)))
    /\ UNCHANGED toolFrame

BloomStudyCall(r) ==
    /\ Dispatching(r, "bloom_study")
    /\ \E json \in ArgsJson, e \in BloomEnvs :
         Finish(r, ParseThen(json, BloomStudy(json, e)))
    /\ UNCHANGED toolFrame

NewLayerFromPostgis(r) ==
    /\ Dispatching(r, "new_layer_from_postgis")
    /\ \E json \in ArgsJson, a \in NewLayerArgs, e \in NewLayerEnvs :
         Finish(r, ParseThen(json, NewLayerFromPostgisResult(json, a, e)))
    /\ UNCHANGED toolFrame

AddLayerToMap(r) ==
    /\ Dispatching(r, "add_layer_to_map")
    /\ \E json \in ArgsJson, e \in AddLayerEnvs :
         Finish(r, ParseThen(json, AddLayerToMapResult(json, e)))
    /\ UNCHANGED toolFrame

QueryDuckdbSqlOf(r, Jsons) ==
    /\ Dispatching(r, "query_duckdb_sql")
    /\ \E json \in Jsons, a \in DuckdbArgs, e \in DuckdbEnvs :
         Finish(r, ParseThen(json, QueryDuckdbSqlResult(json, a, e)))
    /\ UNCHANGED toolFrame

QueryDuckdbSql(r) == QueryDuckdbSqlOf(r, ArgsJson)

SetLayerStyleOf(r, Jsons, Args) ==
    /\ Dispatching(r, "set_layer_style")
    /\ \E json \in Jsons, a \in Args, e \in StyleEnvs :
         Finish(r, ParseThen(json, SetLayerStyleResult(json, a, e)))
    /\ UNCHANGED toolFrame

SetLayerStyle(r) == SetLayerStyleOf(r, ArgsJson, StyleArgs)

QueryPostgisDatabase(r) ==
    /\ Dispatching(r, "query_postgis_database")
    /\ \E json \in ArgsJson, a \in PostgisQueryArgs, e \in PostgisQueryEnvs :
         Finish(r, ParseThen(json, QueryPostgisDatabaseResult(json, a, e)))
    /\ UNCHANGED toolFrame

GeoprocessingCall(r) ==
    /\ Dispatching(r, "geoprocessing")
    /\ \E json \in ArgsJson, e \in GeoEnvs :
         Finish(r, ParseThen(json, RunGeoprocessingTool(json, e)))
    /\ UNCHANGED toolFrame

\* else: raise HTTPException(status_code=400)
UnsupportedToolCallOf(r, Jsons) ==
    /\ Dispatching(r, "unsupported")
    /\ \E json \in Jsons :
         Finish(r, ParseThen(json, Raises("unknown_tool")))
    /\ UNCHANGED toolFrame

UnsupportedToolCall(r) == UnsupportedToolCallOf(r, ArgsJson)

ToolCall(r) ==
    \/ PydanticToolCall(r)
    \/ BloomStudyCall(r)
    \/ NewLayerFromPostgis(r)
    \/ AddLayerToMap(r)
    \/ QueryDuckdbSql(r)
    \/ SetLayerStyle(r)
    \/ QueryPostgisDatabase(r)
    \/ GeoprocessingCall(r)
    \/ UnsupportedToolCall(r)

\* --------------------------------------- the PostGIS handlers, in steps
\* One new_layer_from_postgis or query_postgis_database call followed
\* statement by statement: what it sends to the user's external database,
\* what it writes to the application database, and the tool message it
\* stores.  The steps of the handler change nothing else of the run.

\* EXPLAIN (FORMAT JSON) plans: a node has a "Node Type" and child "Plans".
NodeTypes == {"Seq Scan", "CTE Scan", "ModifyTable"}
PlanNode(t, children) == [type |-> t, plans |-> children]
LeafPlans == {PlanNode(t, <<>>) : t \in NodeTypes}
ShallowPlans ==
    LeafPlans \cup {PlanNode(t, <<c>>) : t \in NodeTypes, c \in LeafPlans}
QueryPlans ==
    ShallowPlans \cup {PlanNode(t, <<c>>) : t \in NodeTypes, c \in ShallowPlans}
                 \cup {PlanNode("CTE Scan", <<c, d>>) : c, d \in LeafPlans}

check_postgis_readonly_top_node(plan) == plan.type = "ModifyTable"

\* check_postgis_readonly: TRUE when it raises ValueError("Write operations
\* not allowed")
RECURSIVE check_postgis_readonly(_)
check_postgis_readonly(plan) ==
    \/ plan.type = "ModifyTable"
    \/ \E i \in DOMAIN plan.plans : check_postgis_readonly(plan.plans[i])

\* the columns a query projects
ColumnNames == {"geom", "id", "name"}

\* the arguments of a new_layer_from_postgis call and what its query is
\* owned: project_postgres_connections has a row with this id and
\* user_id = the requesting user
NewLayerCalls ==
    [name : {"new_layer_from_postgis"},
     connection : {"missing", "given"},
     owned : BOOLEAN,
     query : {"missing", "empty", "given"},
     plan : QueryPlans,
     columns : SUBSET ColumnNames]

\* tool_result = {"status": "error", "error": ...}
ErrorResult(err) == [status |-> "error", error |-> err]
SuccessResult == [status |-> "success", error |-> "none"]

\* layer_id = generate_id(prefix="L") (line 1496): the ids a call may draw
GeneratedIds == {"N1", "N2"}
\* the ids of layers already on the map
OnMap(col) == {col.ids[i] : i \in 1..Len(col.ids)}
\* SET layers = array_append(layers, $1) WHERE id = $2
array_append_unguarded(col, id) ==
    IF col.null THEN [null |-> FALSE, ids |-> <<id>>]
    ELSE [null |-> FALSE, ids |-> Append(col.ids, id)]
\* UPDATE user_mundiai_maps SET layers = CASE WHEN layers IS NULL THEN
\* ARRAY[$1] ELSE array_append(layers, $1) END
\* WHERE id = $2 AND (layers IS NULL OR NOT ($1 = ANY(layers)))
attach_layer(col, id) ==
    IF col.null THEN [null |-> FALSE, ids |-> <<id>>]
    ELSE IF id \in OnMap(col) THEN col
    ELSE [null |-> FALSE, ids |-> Append(col.ids, id)]

\* The answers of a lookup that selects a row by its id AND by its owner
\* (WHERE layer_id = $1 AND owner_uuid = $2, WHERE id = $1 AND user_id = $2).
owner_lookup_any(owned) == Lookups
owner_lookup(owned) ==
    {"db_error"} \cup (IF owned THEN {"found"} ELSE {"not_found"})

\* the frame of a handler step
handlerFrame == <<runVars, layers>>

\* the except without the finally: the connection stays as it is
CaughtWithoutFinally(err) ==
    /\ pgOpen' = pgOpen
    /\ toolResult' = ErrorResult(err)
    /\ hpc' = "persist"

\* The handler leaves its try block with an exception: the finally closes
\* the connection and the except builds the error result.
Caught(err) ==
    /\ pgOpen' = FALSE
    /\ toolResult' = ErrorResult(err)
    /\ hpc' = "persist"

\* a statement is sent on the external connection
Issue(stmt) == pgStmts' = Append(pgStmts, stmt)

\* The loop reaches a new_layer_from_postgis call (lines 1281-1294).
NewLayerStart ==
    /\ hpc = "idle"
    /\ \E c \in NewLayerCalls :
         /\ hcall' = c
         /\ IF c.query = "missing"
              THEN /\ hpc' = "raised"
                   /\ toolResult' = NoResult
              ELSE IF c.connection = "missing" \/ c.query = "empty"
                THEN /\ hpc' = "persist"
                     /\ toolResult' = ErrorResult("missing_parameters")
                ELSE /\ hpc' = "nl_lookup"
                     /\ toolResult' = NoResult
    /\ pgOpen' = FALSE
    /\ pgStmts' = <<>>
    /\ appWrites' = <<>>
    /\ persisted' = <<>>
    /\ UNCHANGED handlerFrame

\* SELECT connection_uri FROM project_postgres_connections (lines 1297-1310)
NewLayerLookup ==
    /\ hpc = "nl_lookup"
    /\ \E res \in owner_lookup(hcall.owned) :
         IF res = "db_error" THEN hpc' = "raised" /\ toolResult' = toolResult
         ELSE IF res = "not_found"
           THEN hpc' = "persist" /\ toolResult' = ErrorResult("connection_not_found")
           ELSE hpc' = "nl_connect" /\ toolResult' = toolResult
    /\ UNCHANGED <<hcall, pgOpen, pgStmts, appWrites, persisted, handlerFrame>>

\* connection_manager.connect_to_postgres (line 1319)
NewLayerConnect ==
    /\ hpc = "nl_connect"
    /\ \/ Caught("connect_failed")
       \/ pgOpen' = TRUE /\ hpc' = "nl_explain" /\ toolResult' = toolResult
    /\ UNCHANGED <<hcall, pgStmts, appWrites, persisted, handlerFrame>>

\* EXPLAIN (FORMAT JSON) query, then check_postgis_readonly on its plan
\* (lines 1324-1334)
NewLayerExplain ==
    /\ hpc = "nl_explain"
    /\ Issue("EXPLAIN")
    /\ \/ Caught("explain_failed")
       \/ IF check_postgis_readonly(hcall.plan)
            THEN Caught("write_not_allowed")
            ELSE pgOpen' = pgOpen /\ hpc' = "nl_prepare" /\ toolResult' = toolResult
    /\ UNCHANGED <<hcall, appWrites, persisted, handlerFrame>>

NewLayerPrepareGeomOnly ==
    /\ hpc = "nl_prepare"
    /\ Issue("PREPARE")
    /\ \/ Caught("prepare_failed")
       \/ IF "geom" \notin hcall.columns THEN Caught("missing_geom")
          ELSE pgOpen' = pgOpen /\ hpc' = "nl_count" /\ toolResult' = toolResult
    /\ UNCHANGED <<hcall, appWrites, persisted, handlerFrame>>

\* pg.prepare(SELECT * FROM (query) AS sub LIMIT 1) and the check of the
\* column names (lines 1337-1353)
NewLayerPrepare ==
    /\ hpc = "nl_prepare"
    /\ Issue("PREPARE")
    /\ \/ Caught("prepare_failed")
       \/ IF "geom" \notin hcall.columns THEN Caught("missing_geom")
          ELSE IF "id" \notin hcall.columns THEN Caught("missing_id")
          ELSE pgOpen' = pgOpen /\ hpc' = "nl_count" /\ toolResult' = toolResult
    /\ UNCHANGED <<hcall, appWrites, persisted, handlerFrame>>

\* SELECT COUNT(*) FROM (query) AS sub (lines 1368-1370)
NewLayerCount ==
    /\ hpc = "nl_count"
    /\ Issue("COUNT")
    /\ \/ Caught("query_failed")
       \/ pgOpen' = pgOpen /\ hpc' = "nl_geometry_type" /\ toolResult' = toolResult
    /\ UNCHANGED <<hcall, appWrites, persisted, handlerFrame>>

\* SELECT ST_GeometryType(geom) ... (lines 1378-1389); the bounds are
\* queried only when a geometry type was found
NewLayerGeometryType ==
    /\ hpc = "nl_geometry_type"
    /\ Issue("GEOMETRY_TYPE")
    /\ \/ Caught("query_failed")
       \/ \E found \in BOOLEAN :
            /\ hpc' = IF found THEN "nl_bounds" ELSE "nl_close"
            /\ pgOpen' = pgOpen
            /\ toolResult' = toolResult
    /\ UNCHANGED <<hcall, appWrites, persisted, handlerFrame>>

\* WITH extent_data AS (SELECT ST_Extent(geom) ...) (lines 1408-1444)
NewLayerBounds ==
    /\ hpc = "nl_bounds"
    /\ Issue("BOUNDS")
    /\ \/ Caught("query_failed")
       \/ pgOpen' = pgOpen /\ hpc' = "nl_close" /\ toolResult' = toolResult
    /\ UNCHANGED <<hcall, appWrites, persisted, handlerFrame>>

\* finally: await pg.close() (lines 1487-1488)
NewLayerClose ==
    /\ hpc = "nl_close"
    /\ pgOpen' = FALSE
    /\ hpc' = "nl_insert_layer"
    /\ UNCHANGED <<hcall, pgStmts, appWrites, toolResult, persisted, handlerFrame>>

\* a geometry type was found (the bounds were queried)
GeometryTypeFound == \E i \in DOMAIN pgStmts : pgStmts[i] = "BOUNDS"

\* INSERT INTO map_layers (lines 1511-1530); a default style exists when
\* the geometry type was found and the style could be generated
NewLayerInsertLayer ==
    /\ hpc = "nl_insert_layer"
    /\ \/ Caught("insert_failed") /\ appWrites' = appWrites
       \/ /\ appWrites' = Append(appWrites, "map_layers")
          /\ \E styled \in BOOLEAN :
               /\ styled => GeometryTypeFound
               /\ hpc' = IF styled THEN "nl_insert_style" ELSE "nl_update_map"
          /\ UNCHANGED <<pgOpen, toolResult>>
    /\ UNCHANGED <<hcall, pgStmts, persisted, handlerFrame>>

\* INSERT INTO layer_styles, INSERT INTO map_layer_styles (lines 1533-1557)
NewLayerInsertStyle ==
    /\ hpc = "nl_insert_style"
    /\ \/ Caught("insert_failed") /\ appWrites' = appWrites
       \/ Caught("insert_failed") /\ appWrites' = Append(appWrites, "layer_styles")
       \/ /\ appWrites' = appWrites \o <<"layer_styles", "map_layer_styles">>
          /\ hpc' = "nl_update_map"
          /\ UNCHANGED <<pgOpen, toolResult>>
    /\ UNCHANGED <<hcall, pgStmts, persisted, handlerFrame>>

\* UPDATE user_mundiai_maps SET layers = ... (lines 1560-1571), then the
\* success result.  layer_id is the key of the row the INSERT INTO map_layers
\* of this call has just created (map_layers.layer_id is the primary key),
\* so it is the id of no layer attached before.
NewLayerUpdateMap ==
    /\ hpc = "nl_update_map"
    /\ \/ Caught("update_failed") /\ appWrites' = appWrites /\ layers' = layers
       \/ /\ appWrites' = Append(appWrites, "map_layer_list")
          /\ \E layer_id \in GeneratedIds \ OnMap(layers) :
               layers' = attach_layer(layers, layer_id)
          /\ toolResult' = SuccessResult
          /\ hpc' = "persist"
          /\ pgOpen' = pgOpen
    /\ UNCHANGED <<hcall, pgStmts, persisted, runVars>>

\* add_chat_completion_message(role="tool", content=json_dumps_safe(tool_result))
HandlerPersist ==
    /\ hpc = "persist"
    /\ persisted' = Append(persisted, toolResult)
    /\ hpc' = "done"
    /\ UNCHANGED <<hcall, pgOpen, pgStmts, appWrites, toolResult, handlerFrame>>

\* if limit_value > 1000
MaxLimit == 1000

\* The occurrences of LIMIT n in the text of a query, in textual order
\* (in a subquery, a literal, a comment or as the clause of the statement).
LimitValues == {500, 1000, 1001, 5000}
LimitOccurrences ==
    {<<>>} \cup {<<a>> : a \in LimitValues}
           \cup {<<a, b>> : a \in LimitValues, b \in LimitValues}

\* re.search(r"\bLIMIT\s+(\d+)\b", ...): the first occurrence, -1 for no match
limit_match(limits) == IF limits = <<>> THEN -1 ELSE limits[1]

\* What the statement of a call is to the database that runs it: own_limit
\* is the position in limits of the LIMIT clause of the statement itself (0
\* when every occurrence is in a subquery, a literal or a comment), writes
\* tells an INSERT, UPDATE or DELETE.  The handler reads neither.
PostgisQueryCalls ==
    {c \in [name : {"query_postgis_database"},
            connection : {"missing", "given"},
            owned : BOOLEAN,
            sql_query : {"missing", "given"},
            limits : LimitOccurrences,
            own_limit : 0..2,
            writes : BOOLEAN] : c.own_limit <= Len(c.limits)}

\* if len(result_text) > 25000
MaxResultChars == 25000

\* len(rows) of postgres_conn.fetch: the database returns at most as many
\* rows as the LIMIT clause of the statement itself allows
RowCounts == {0, 1, 1000, 1001, 5000}
RowsOf(c) ==
    {n \in RowCounts : c.own_limit # 0 => n <= c.limits[c.own_limit]}
\* len(result_text): the header line and one line per row
ResultChars == {14, 5001, 25000, 25001}

\* tool_result of a query that ran (lines 1887-1951)
QuerySuccess(n, chars) ==
    [status |-> "success", error |-> "none", row_count |-> n, chars |-> chars]
query_result(n, chars) ==
    IF n = 0 THEN QuerySuccess(0, 0)
    ELSE IF chars > MaxResultChars THEN ErrorResult("result_too_large")
    ELSE QuerySuccess(n, chars)

\* The loop reaches a query_postgis_database call (lines 1808-1819).
PostgisQueryStart ==
    /\ hpc = "idle"
    /\ \E c \in PostgisQueryCalls :
         /\ hcall' = c
         /\ IF c.connection = "missing" \/ c.sql_query = "missing"
              THEN /\ hpc' = "persist"
                   /\ toolResult' = ErrorResult("missing_parameters")
              ELSE /\ hpc' = "qp_lookup"
                   /\ toolResult' = NoResult
    /\ pgOpen' = FALSE
    /\ pgStmts' = <<>>
    /\ appWrites' = <<>>
    /\ persisted' = <<>>
    /\ UNCHANGED handlerFrame

\* SELECT connection_uri FROM project_postgres_connections (lines 1821-1834)
PostgisQueryLookup ==
    /\ hpc = "qp_lookup"
    /\ \E res \in owner_lookup(hcall.owned) :
         IF res = "db_error" THEN hpc' = "raised" /\ toolResult' = toolResult
         ELSE IF res = "not_found"
           THEN hpc' = "persist" /\ toolResult' = ErrorResult("connection_not_found")
           ELSE hpc' = "qp_limit" /\ toolResult' = toolResult
    /\ UNCHANGED <<hcall, pgOpen, pgStmts, appWrites, persisted, handlerFrame>>

\* the LIMIT check (lines 1836-1873): both rejections store the result and
\* continue with the next tool call
PostgisQueryCheckLimit ==
    /\ hpc = "qp_limit"
    /\ LET n == limit_match(hcall.limits)
       IN IF n = -1
            THEN hpc' = "persist" /\ toolResult' = ErrorResult("limit_required")
            ELSE IF n > MaxLimit
              THEN hpc' = "persist" /\ toolResult' = ErrorResult("limit_exceeds")
              ELSE hpc' = "qp_connect" /\ toolResult' = toolResult
    /\ UNCHANGED <<hcall, pgOpen, pgStmts, appWrites, persisted, handlerFrame>>

\* connection_manager.connect_to_postgres (lines 1879-1881)
PostgisQueryConnect ==
    /\ hpc = "qp_connect"
    /\ \/ Caught("connect_failed")
       \/ pgOpen' = TRUE /\ hpc' = "qp_fetch" /\ toolResult' = toolResult
    /\ UNCHANGED <<hcall, pgStmts, appWrites, persisted, handlerFrame>>

\* postgres_conn.fetch(limited_query), the result text, the size check and
\* the finally that closes the connection (lines 1882-1960)
PostgisQueryFetch ==
    /\ hpc = "qp_fetch"
    /\ Issue("QUERY")
    /\ \/ Caught("query_failed")
       \/ \E n \in RowsOf(hcall), chars \in ResultChars :
            /\ chars >= n
            /\ n = 0 => chars = 14
            /\ pgOpen' = FALSE
            /\ toolResult' = query_result(n, chars)
            /\ hpc' = "persist"
    /\ UNCHANGED <<hcall, appWrites, persisted, handlerFrame>>

NextPostgis ==
    \/ NewLayerStart
    \/ NewLayerLookup
    \/ NewLayerConnect
    \/ NewLayerExplain
    \/ NewLayerPrepare
    \/ NewLayerCount
    \/ NewLayerGeometryType
    \/ NewLayerBounds
    \/ NewLayerClose
    \/ NewLayerInsertLayer
    \/ NewLayerInsertStyle
    \/ NewLayerUpdateMap
    \/ PostgisQueryStart
    \/ PostgisQueryLookup
    \/ PostgisQueryCheckLimit
    \/ PostgisQueryConnect
    \/ PostgisQueryFetch
    \/ HandlerPersist

\* ------------------------------------------------------ specifications
SendStep(r, maxSys) ==
    \/ SendCheckLock(r)
    \/ SendSetLock(r)
    \/ SendPersistAndStart(r, maxSys)

LoopStep(r, maxTurns, maxCalls) ==
    \/ LoopTop(r)
    \/ ConsumeCancel(r)
    \/ LlmReturns(r, maxTurns, maxCalls)
    \/ LlmFails(r)
    \/ AfterResponse(r)
    \/ FetchProjectId(r)
    \/ Unlock(r)

\* Two background requests, for the same or for different conversations and
\* maps; the LLM asks for query_duckdb_sql or for a tool that does not exist.
InitConc ==
    /\ Init
    /\ awaitEnd = [r \in Reqs |-> FALSE]

Next ==
    \/ \E r \in Reqs :
         \/ SendStep(r, ConcSysMsgs)
         \/ LoopStep(r, ConcToolTurns, ConcCalls)
         \/ QueryDuckdbSqlOf(r, {"object"})
         \/ UnsupportedToolCallOf(r, {"object"})
    \/ \E m \in Maps : CancelMapMessage(m) \/ CancelExpires(m)
    \/ \E c \in Convs : LockExpires(c)

Spec == InitConc /\ [][Next]_vars

\* One request, awaited or in the background, with LLM turns of up to
\* MaxCalls tool calls of any tool.
InitLoop ==
    /\ Init
    /\ conv = [r \in Reqs |-> "c1"]
    /\ mapId = [r \in Reqs |-> "m1"]
    /\ awaitEnd["r2"] = FALSE

NextLoop ==
    \/ SendStep("r1", MaxSysMsgs)
    \/ LoopStep("r1", MaxToolTurns, MaxCalls)
    \/ ToolCall("r1")
    \/ CancelMapMessage("m1")
    \/ CancelExpires("m1")
    \/ LockExpires("c1")

SpecLoop == InitLoop /\ [][NextLoop]_vars

\* One request whose map was cancelled before it arrived: the state after
\* one cancel_map_message("m1") with no request made yet, and no cancel
\* request from then on.
InitStale ==
    /\ lock = [c \in Convs |-> NoReq]
    /\ lockSets = [c \in Convs |-> 0]
    /\ cancelled = [m \in Maps |-> m = "m1"]
    /\ cancels = [m \in Maps |-> IF m = "m1" THEN 1 ELSE 0]
    /\ log = [c \in Convs |-> <<>>]
    /\ conv = [r \in Reqs |-> "c1"]
    /\ mapId = [r \in Reqs |-> "m1"]
    /\ awaitEnd \in [Reqs -> BOOLEAN]
    /\ awaitEnd["r2"] = FALSE
    /\ pc = [r \in Reqs |-> "idle"]
    /\ http = [r \in Reqs |-> "none"]
    /\ round = [r \in Reqs |-> 0]
    /\ ncalls = [r \in Reqs |-> 0]
    /\ k = [r \in Reqs |-> 0]
    /\ llmCalls = [r \in Reqs |-> 0]
    /\ context = [r \in Reqs |-> <<>>]
    /\ notices = [r \in Reqs |-> <<>>]
    /\ llmError = [r \in Reqs |-> "none"]
    /\ exit = [r \in Reqs |-> "none"]
    /\ fault = [r \in Reqs |-> "none"]
    /\ hpc = "idle"
    /\ hcall = NoCall
    /\ pgOpen = FALSE
    /\ pgStmts = <<>>
    /\ appWrites = <<>>
    /\ toolResult = NoResult
    /\ persisted = <<>>
    /\ layers = NullLayers

NextStale ==
    \/ SendStep("r1", MaxSysMsgs)
    \/ LoopStep("r1", MaxToolTurns, MaxCalls)
    \/ ToolCall("r1")
    \/ CancelExpires("m1")
    \/ LockExpires("c1")

SpecStale == InitStale /\ [][NextStale]_vars

\* ---- add_layer_to_map followed statement by statement (lines 1597-1653)
\* layer ids a call may name: a layer uploaded earlier and the layers
\* new_layer_from_postgis creates
LayerIds == {"L1"} \cup GeneratedIds
\* owned: map_layers has a row with this layer_id and owner_uuid = user_id
AddLayerCalls ==
    [name : {"add_layer_to_map"}, layer_id : LayerIds, owned : BOOLEAN]

AddLayerStart ==
    /\ hpc = "idle"
    /\ \E c \in AddLayerCalls : hcall' = c
    /\ hpc' = "al_lookup"
    /\ toolResult' = NoResult
    /\ pgOpen' = FALSE
    /\ pgStmts' = <<>>
    /\ appWrites' = <<>>
    /\ persisted' = <<>>
    /\ UNCHANGED handlerFrame

\* SELECT layer_id FROM map_layers WHERE layer_id = $1 AND owner_uuid = $2
AddLayerLookup ==
    /\ hpc = "al_lookup"
    /\ \E res \in owner_lookup(hcall.owned) :
         IF res = "db_error" THEN hpc' = "raised" /\ toolResult' = toolResult
         ELSE IF res = "not_found"
           THEN hpc' = "persist" /\ toolResult' = ErrorResult("layer_not_found")
           ELSE hpc' = "al_rename" /\ toolResult' = toolResult
    /\ UNCHANGED <<hcall, pgOpen, pgStmts, appWrites, persisted, handlerFrame>>

\* UPDATE map_layers SET name = $1 WHERE layer_id = $2
AddLayerRename ==
    /\ hpc = "al_rename"
    /\ \/ hpc' = "raised" /\ appWrites' = appWrites
       \/ hpc' = "al_update_map" /\ appWrites' = Append(appWrites, "map_layers.name")
    /\ UNCHANGED <<hcall, pgOpen, pgStmts, toolResult, persisted, handlerFrame>>

\* UPDATE user_mundiai_maps SET layers = ... (lines 1629-1640): the row is
\* written when the WHERE clause matches it.  Then the result, whose status
\* is a sentence.
AddLayerUpdateMap ==
    /\ hpc = "al_update_map"
    /\ \/ /\ hpc' = "raised"
          /\ UNCHANGED <<layers, appWrites, toolResult>>
       \/ /\ layers' = attach_layer(layers, hcall.layer_id)
          /\ appWrites' = IF layers' # layers
                            THEN Append(appWrites, "map_layer_list")
                            ELSE appWrites
          /\ toolResult' = [status |-> "layer_added_sentence", error |-> "none"]
          /\ hpc' = "persist"
    /\ UNCHANGED <<hcall, pgOpen, pgStmts, persisted, runVars>>

\* for tool_call in tool_calls: the loop goes on to the next tool call
MaxLayers == 4
HandlerNextCall ==
    /\ hpc = "done"
    /\ Len(layers.ids) < MaxLayers
    /\ hpc' = "idle"
    /\ hcall' = NoCall
    /\ pgStmts' = <<>>
    /\ appWrites' = <<>>
    /\ toolResult' = NoResult
    /\ persisted' = <<>>
    /\ UNCHANGED <<pgOpen, handlerFrame>>

NextLayers ==
    \/ AddLayerStart
    \/ AddLayerLookup
    \/ AddLayerRename
    \/ AddLayerUpdateMap
    \/ NewLayerStart
    \/ NewLayerLookup
    \/ NewLayerConnect
    \/ NewLayerExplain
    \/ NewLayerPrepare
    \/ NewLayerCount
    \/ NewLayerGeometryType
    \/ NewLayerBounds
    \/ NewLayerClose
    \/ NewLayerInsertLayer
    \/ NewLayerInsertStyle
    \/ NewLayerUpdateMap
    \/ HandlerPersist
    \/ HandlerNextCall

SpecLayers == InitLoop /\ [][NextLayers]_vars

\* ---- set_layer_style followed statement by statement (lines 1737-1807)
SetStyleCalls ==
    [name : {"set_layer_style"},
     params : {"missing", "bad_style_json", "given"},
     owned : BOOLEAN]

SetStyleStart ==
    /\ hpc = "idle"
    /\ \E c \in SetStyleCalls :
         /\ hcall' = c
         /\ IF c.params = "missing"
              THEN hpc' = "persist" /\ toolResult' = ErrorResult("missing_parameters")
              ELSE hpc' = "st_lookup" /\ toolResult' = NoResult
    /\ pgOpen' = FALSE
    /\ pgStmts' = <<>>
    /\ appWrites' = <<>>
    /\ persisted' = <<>>
    /\ UNCHANGED handlerFrame

\* json.loads(maplibre_json_layers_str), then SELECT * FROM map_layers WHERE
\* layer_id = $1 AND owner_uuid = $2; no row raises HTTPException(404); all
\* of it inside the try, whose except builds the error result
SetStyleLookup ==
    /\ hpc = "st_lookup"
    /\ IF hcall.params = "bad_style_json"
         THEN hpc' = "persist" /\ toolResult' = ErrorResult("invalid_json")
         ELSE \E res \in owner_lookup(hcall.owned) :
                IF res = "found"
                  THEN hpc' = "st_apply" /\ toolResult' = toolResult
                  ELSE hpc' = "persist" /\ toolResult' = ErrorResult("style_failed")
    /\ UNCHANGED <<hcall, pgOpen, pgStmts, appWrites, persisted, handlerFrame>>

\* set_layer_style_route(...): the style row and its link to the map
SetStyleApply ==
    /\ hpc = "st_apply"
    /\ hpc' = "persist"
    /\ \/ /\ toolResult' = ErrorResult("style_failed")
          /\ appWrites' = appWrites
       \/ /\ toolResult' = SuccessResult
          /\ appWrites' = appWrites \o <<"layer_styles", "map_layer_styles">>
    /\ UNCHANGED <<hcall, pgOpen, pgStmts, persisted, handlerFrame>>

\* ---- query_duckdb_sql followed statement by statement (lines 1654-1736)
\* layer_id = tool_args.get("layer_ids", [None])[0]: the layer the call
\* names is the first of layer_ids, None when the key is absent
DuckdbCalls ==
    {c \in [name : {"query_duckdb_sql"},
            layer_ids : {"missing", "given"},
            owned : BOOLEAN] : c.layer_ids = "missing" => ~c.owned}

DuckdbStart ==
    /\ hpc = "idle"
    /\ \E c \in DuckdbCalls : hcall' = c
    /\ hpc' = "dk_lookup"
    /\ toolResult' = NoResult
    /\ pgOpen' = FALSE
    /\ pgStmts' = <<>>
    /\ appWrites' = <<>>
    /\ persisted' = <<>>
    /\ UNCHANGED handlerFrame

\* SELECT layer_id FROM map_layers WHERE layer_id = $1 AND owner_uuid = $2,
\* outside the try (lines 1661-1682)
DuckdbLookup ==
    /\ hpc = "dk_lookup"
    /\ \E res \in owner_lookup(hcall.owned) :
         IF res = "db_error" THEN hpc' = "raised" /\ toolResult' = toolResult
         ELSE IF res = "not_found"
           THEN hpc' = "persist" /\ toolResult' = ErrorResult("layer_not_found")
           ELSE hpc' = "dk_exec" /\ toolResult' = toolResult
    /\ UNCHANGED <<hcall, pgOpen, pgStmts, appWrites, persisted, handlerFrame>>

\* execute_duckdb_query(sql_query, layer_id, ...) and the CSV of its rows
\* (lines 1684-1728)
DuckdbExec ==
    /\ hpc = "dk_exec"
    /\ hpc' = "persist"
    /\ \E res \in {"http_exception", "exception", "too_large", "ok"} :
         toolResult' = IF res = "ok" THEN SuccessResult
                       ELSE ErrorResult("duckdb_" \o res)
    /\ UNCHANGED <<hcall, pgOpen, pgStmts, appWrites, persisted, handlerFrame>>

\* One tool call of any of the five tools that look a layer or a
\* connection up by its owner.
NextOwner ==
    \/ NextPostgis
    \/ AddLayerStart
    \/ AddLayerLookup
    \/ AddLayerRename
    \/ AddLayerUpdateMap
    \/ SetStyleStart
    \/ SetStyleLookup
    \/ SetStyleApply
    \/ DuckdbStart
    \/ DuckdbLookup
    \/ DuckdbExec

SpecOwner == InitLoop /\ [][NextOwner]_vars

\* send_map_message raises between redis.set(lock_key) and the start of the
\* run (get_all_conversation_messages, get_map_description,
\* get_system_messages or an INSERT raises): no handler encloses these
\* statements, the exception leaves the route as a 500 and the key is left
\* to its expiry.
SendSetupFails(r) ==
    /\ pc[r] = "setup"
    /\ pc' = [pc EXCEPT ![r] = "failed"]
    /\ http' = [http EXCEPT ![r] = "500"]
    /\ UNCHANGED <<lock, lockSets, cancelled, cancels, log, reqConst, handlerVars, loopVars,
                   histVars>>

NextSetup ==
    \/ Next
    \/ \E r \in Reqs : SendSetupFails(r)

SpecSetup == InitConc /\ [][NextSetup]_vars

\* One tool call of a PostGIS handler followed statement by statement.
SpecPostgis == InitLoop /\ [][NextPostgis]_vars

\* One request and an LLM that may ask in every round for set_layer_style
\* without its parameters (answered with an error result every time).
MissingStyleArgs == {a \in StyleArgs : a.params = "missing"}

NextRounds ==
    \/ SendStep("r1", ConcSysMsgs)
    \/ LoopStep("r1", MaxRounds + MaxToolTurns, 1)
    \/ SetLayerStyleOf("r1", {"object"}, MissingStyleArgs)
    \/ CancelMapMessage("m1")
    \/ CancelExpires("m1")
    \/ LockExpires("c1")

SpecRounds == InitLoop /\ [][NextRounds]_vars

\* Two requests with the scheduling the deployment guarantees: a request
\* that has arrived takes its next step (the event loop runs every ready
\* task and every external call returns or times out), and Redis expires
\* the lock key.
Progress(r) ==
    /\ pc[r] # "idle"
    /\ \/ SendStep(r, ConcSysMsgs)
       \/ LoopStep(r, ConcToolTurns, ConcCalls)
       \/ QueryDuckdbSqlOf(r, {"object"})
       \/ UnsupportedToolCallOf(r, {"object"})

InitSameConversation ==
    /\ InitConc
    /\ conv = [r \in Reqs |-> "c1"]
    /\ mapId = [r \in Reqs |-> "m1"]

FairSpec ==
    /\ InitSameConversation
    /\ [][Next]_vars
    /\ \A r \in Reqs : WF_vars(Progress(r))
    /\ \A c \in Convs : WF_vars(LockExpires(c))

\* The same request twice, once awaited and once as a background task, on
\* two conversations of two maps.  The first takes any step; the second
\* then takes a step that brings its conversation, its lock key, its
\* cancellation flag and its run to the same state as the first's, which
\* it can do only with the same answer of the LLM, the same outcome of the
\* tool and the same cancel request or expiry.
InitModes ==
    /\ Init
    /\ conv = [r \in Reqs |-> IF r = "r1" THEN "c1" ELSE "c2"]
    /\ mapId = [r \in Reqs |-> IF r = "r1" THEN "m1" ELSE "m2"]
    /\ awaitEnd["r2"] = ~awaitEnd["r1"]

\* a row without the name of the run in its tool-call ids
AnonId(id) == IF id = NoId THEN NoId ELSE <<id[2], id[3]>>
Anon(lg) ==
    [p \in DOMAIN lg |->
        [role |-> lg[p].role,
         calls |-> [j \in DOMAIN lg[p].calls |-> AnonId(lg[p].calls[j])],
         id |-> AnonId(lg[p].id),
         status |-> lg[p].status]]

\* what a request does and leaves behind, its HTTP response aside
Observed(r) ==
    <<pc[r], round[r], ncalls[r], k[r], llmCalls[r], notices[r], llmError[r],
      exit[r], fault[r], lock[conv[r]] # NoReq, lockSets[conv[r]],
      cancelled[mapId[r]], cancels[mapId[r]], Anon(log[conv[r]])>>

InSync == Observed("r1") = Observed("r2")

WorldStep(r) ==
    \/ SendStep(r, ConcSysMsgs)
    \/ LoopStep(r, ConcToolTurns, MaxCalls)
    \/ ToolCall(r)
    \/ cancels[mapId[r]] < MaxCancels /\ SetCancelled(mapId[r])
    \/ CancelExpires(mapId[r])
    \/ LockExpires(conv[r])

Lead == InSync /\ WorldStep("r1")
Follow == ~InSync /\ WorldStep("r2") /\ InSync'

NextModes == Lead \/ Follow

SpecModes == InitModes /\ [][NextModes]_vars

\* --------------------------------- run_geoprocessing_tool, by statement
\* The values of the arguments of a call: a string that is no layer id, a
\* number, the empty string, and strings of the layer-id shape naming a
\* layer that resolves, that does not exist, that another user owns, or
\* whose source get_ogr_source cannot give.
InputValues == {"text", "number", "empty_string", "layer_ok", "layer_missing",
                "layer_not_owned", "layer_no_source"}
LayerIdShaped == {"layer_ok", "layer_missing", "layer_not_owned", "layer_no_source"}
\* isinstance(s, str) and s[0] == "L" and len(s) == 12: s[0] of the empty
\* string raises IndexError
is_layer_id(v) ==
    IF v = "number" THEN "false"
    ELSE IF v = "empty_string" THEN "raises"
    ELSE IF v \in LayerIdShaped THEN "true" ELSE "false"
\* arguments of the call in the order of the dict, and how the processing
\* service will answer it
GeoCalls ==
    [name : GeoprocessingNames,
     arguments : {"null", "object"},
     inputs : {<<a>> : a \in InputValues}
                \cup {<<a, b>> : a \in InputValues, b \in InputValues},
     service : {"no_answer", "500", "200"},
     upload : {"missing", "failed", "uploaded"}]

\* the outcome of the loop over mapped_args (lines 526-559): the first value
\* that raises ends it
RECURSIVE resolve_inputs(_)
resolve_inputs(inputs) ==
    IF inputs = <<>> THEN "resolved"
    ELSE LET v == Head(inputs)
         IN IF is_layer_id(v) = "raises" THEN "raised"
            ELSE IF is_layer_id(v) = "true" /\ v # "layer_ok" THEN "raised"
            ELSE resolve_inputs(Tail(inputs))

\* tool_args.copy() (lines 503-514) is outside the try: JSON null raises
GeoStart ==
    /\ hpc = "idle"
    /\ \E c \in GeoCalls :
         /\ hcall' = c
         /\ hpc' = IF c.arguments = "null" THEN "raised" ELSE "geo_inputs"
    /\ toolResult' = NoResult
    /\ pgOpen' = FALSE
    /\ pgStmts' = <<>>
    /\ appWrites' = <<>>
    /\ persisted' = <<>>
    /\ UNCHANGED handlerFrame

\* a value that cannot be resolved is left out of input_urls
GeoInputsSkipping ==
    /\ hpc = "geo_inputs"
    /\ hpc' = "geo_post"
    /\ UNCHANGED <<hcall, pgOpen, pgStmts, appWrites, toolResult, persisted,
                   handlerFrame>>

\* for key, val in mapped_args.items() and the SELECT of the project id
\* (lines 526-568); every exception is caught at lines 710-727
GeoInputs ==
    /\ hpc = "geo_inputs"
    /\ IF resolve_inputs(hcall.inputs) = "raised"
         THEN hpc' = "persist" /\ toolResult' = ErrorResult("unexpected_error")
         ELSE \/ hpc' = "persist" /\ toolResult' = ErrorResult("unexpected_error")
              \/ hpc' = "geo_post" /\ toolResult' = toolResult
    /\ UNCHANGED <<hcall, pgOpen, pgStmts, appWrites, persisted, handlerFrame>>

\* layers are created whatever upload_results says
GeoPostIgnoringUploads ==
    /\ hpc = "geo_post"
    /\ IF hcall.service # "200"
         THEN hpc' = "persist" /\ toolResult' = ErrorResult("qgis_failed")
         ELSE hpc' = "geo_create" /\ toolResult' = toolResult
    /\ UNCHANGED <<hcall, pgOpen, pgStmts, appWrites, persisted, handlerFrame>>

\* client.post(.../run_qgis_process), the status test and the test of
\* upload_results (lines 612-650)
GeoPost ==
    /\ hpc = "geo_post"
    /\ IF hcall.service = "no_answer"
         THEN hpc' = "persist" /\ toolResult' = ErrorResult("unexpected_error")
         ELSE IF hcall.service # "200"
           THEN hpc' = "persist" /\ toolResult' = ErrorResult("qgis_failed")
           ELSE IF hcall.upload # "uploaded"
             THEN hpc' = "persist" /\ toolResult' = ErrorResult("not_uploaded")
             ELSE hpc' = "geo_create" /\ toolResult' = toolResult
    /\ UNCHANGED <<hcall, pgOpen, pgStmts, appWrites, persisted, handlerFrame>>

\* s3 get_object and internal_upload_layer(..., add_layer_to_map=False)
\* (lines 652-708)
GeoCreate ==
    /\ hpc = "geo_create"
    /\ \/ /\ toolResult' = ErrorResult("unexpected_error")
          /\ appWrites' = appWrites
       \/ /\ toolResult' = SuccessResult
          /\ appWrites' = Append(appWrites, "map_layers")
    /\ hpc' = "persist"
    /\ UNCHANGED <<hcall, pgOpen, pgStmts, persisted, handlerFrame>>

NextGeo ==
    \/ GeoStart
    \/ GeoInputs
    \/ GeoPost
    \/ GeoCreate
    \/ HandlerPersist

SpecGeo == InitLoop /\ [][NextGeo]_vars

\* ------------------------------------------ one tool call, by branch
\* A tool call of any name; the pydantic registry and the geoprocessing
\* tool list are built outside this file, so a name may be in either, in
\* both, or be a static name as well.
DispatchCalls == [name : ToolNames, registered : BOOLEAN, geoprocessing : BOOLEAN]
Handlers == StaticTools \cup {"pydantic", "geoprocessing"}
\* tool_result of the handler of branch b
HandlerResults(b) ==
    {[status |-> st, error |-> IF st = "error" THEN "tool_error" ELSE "none",
      by |-> b] : st \in {"success", "error"}}

\* for tool_call in assistant_message.tool_calls (lines 1060-1064)
DispatchStart ==
    /\ hpc = "idle"
    /\ hcall' \in DispatchCalls
    /\ hpc' = "dispatch"
    /\ toolResult' = NoResult
    /\ pgOpen' = FALSE
    /\ pgStmts' = <<>>
    /\ appWrites' = <<>>
    /\ persisted' = <<>>
    /\ UNCHANGED handlerFrame

\* the if/elif chain enters the branch of one handler, or raises
\* HTTPException(400) in its else (lines 1066-1986)
DispatchEnter ==
    /\ hpc = "dispatch"
    /\ LET b == function_branch(hcall.name, hcall.registered, hcall.geoprocessing)
       IN hpc' = IF b = "unsupported" THEN "raised" ELSE b
    /\ UNCHANGED <<hcall, pgOpen, pgStmts, appWrites, toolResult, persisted,
                   handlerFrame>>

\* the handler of the branch builds its result; a static handler may raise
DispatchRun ==
    /\ hpc \in Handlers
    /\ \/ toolResult' \in HandlerResults(hpc) /\ hpc' = "persist"
       \/ hpc \in StaticTools /\ toolResult' = toolResult /\ hpc' = "raised"
    /\ UNCHANGED <<hcall, pgOpen, pgStmts, appWrites, persisted, handlerFrame>>

NextDispatch ==
    \/ DispatchStart
    \/ DispatchEnter
    \/ DispatchRun
    \/ HandlerPersist

SpecDispatch == InitLoop /\ [][NextDispatch]_vars

\* ------------------------------------------- the persistence connection
\* async with async_conn("process_chat_interaction_task") as conn (line 745)
\* encloses the whole loop and the delete of the lock (line 1995):
\* add_chat_completion_message executes on conn, and the run holds conn at
\* every position from the first checkpoint to the unlock.
HoldsConn(r) ==
    pc[r] \in {"check1", "consume1", "llm", "check2", "consume2", "project",
               "tools", "unlock"}

\* ------------------------------------------------------- get_map_tree
\* every row of the conversation is handed to the transcript
messages_by_map_unfiltered(lg) == lg
\* The rows of a conversation that get_map_tree puts in the messages lists
\* of its MapNodes, all maps together, in created_at order: the loop over
\* db_messages skips a row whose role is system (lines 423-435).
messages_by_map(lg) == SelectSeq(lg, LAMBDA msg : msg.role # "system")

\* ---------------------------------------- a pydantic tool call, by statement
\* What tool_call.function.arguments holds, and whether ArgModel accepts it.
\* A JSON null, an empty list and a falsy scalar become {} (tool_args or {}),
\* which ArgModel may or may not accept; text that is not JSON is never
\* validated.
PydanticArguments == {"bad_json", "null", "scalar", "list", "object"}
PydanticCalls ==
    {c \in [name : PydanticToolCalls, arguments : PydanticArguments,
            valid : BOOLEAN] : c.arguments = "bad_json" => ~c.valid}
\* what fn(parsed_args, mundi_args) returns: any dict
PydanticResults ==
    {SuccessResult, ErrorResult("tool_error"),
     [status |-> "partial", error |-> "none"]}

\* json.loads(tool_call.function.arguments) (line 1063) and the lookup in
\* pydantic_tool_calls (lines 1066-1067)
PydanticStart ==
    /\ hpc = "idle"
    /\ \E c \in PydanticCalls :
         /\ hcall' = c
         /\ hpc' = IF c.arguments = "bad_json" THEN "raised" ELSE "pd_validate"
    /\ toolResult' = NoResult
    /\ pgOpen' = FALSE
    /\ pgStmts' = <<>>
    /\ appWrites' = <<>>
    /\ persisted' = <<>>
    /\ UNCHANGED handlerFrame

\* the handler is entered although ArgModel rejected the arguments
PydanticValidateLenient ==
    /\ hpc = "pd_validate"
    /\ hpc' = "pd_fn"
    /\ UNCHANGED <<hcall, pgOpen, pgStmts, appWrites, toolResult, persisted,
                   handlerFrame>>

\* parsed_args = ArgModel(**(tool_args or {})) in its try (lines 1068-1084)
PydanticValidate ==
    /\ hpc = "pd_validate"
    /\ IF hcall.valid
         THEN hpc' = "pd_fn" /\ toolResult' = toolResult
         ELSE hpc' = "persist" /\ toolResult' = ErrorResult("invalid_arguments")
    /\ UNCHANGED <<hcall, pgOpen, pgStmts, appWrites, persisted, handlerFrame>>

\* MundiModel(...) and tool_result = await fn(parsed_args, mundi_args) in
\* their try (lines 1086-1101)
PydanticRun ==
    /\ hpc = "pd_fn"
    /\ \/ toolResult' = ErrorResult("tool_execution_failed")
       \/ toolResult' \in PydanticResults
    /\ hpc' = "persist"
    /\ UNCHANGED <<hcall, pgOpen, pgStmts, appWrites, persisted, handlerFrame>>

NextPydantic ==
    \/ PydanticStart
    \/ PydanticValidate
    \/ PydanticRun
    \/ HandlerPersist

SpecPydantic == InitLoop /\ [][NextPydantic]_vars

\* ------------------------------------------------- json_dumps_safe
\* Python values of a tool_result: what json.dumps serialises itself (str,
\* int, None) and what it hands to the default hook (date, datetime,
\* Decimal).  A dict is the sequence of its items in insertion order.
PyStr(s) == [kind |-> "str", s |-> s]
PyInt(n) == [kind |-> "int", n |-> n]
PyNone == [kind |-> "None"]
PyDate(y, m, d) == [kind |-> "date", y |-> y, m |-> m, d |-> d]
PyDatetime(y, m, d, hh, mi) ==
    [kind |-> "datetime", y |-> y, m |-> m, d |-> d, hh |-> hh, mi |-> mi]
\* a Decimal with two decimal places
PyDecimal(units, cents) == [kind |-> "Decimal", units |-> units, cents |-> cents]
PyValues ==
    {PyStr("ok"), PyStr("2024-01-05"), PyInt(7), PyInt(1000), PyNone,
     PyDate(2024, 1, 5), PyDatetime(2024, 11, 30, 9, 5),
     PyDecimal(1, 50), PyDecimal(12, 5)}
Item(key, value) == [key |-> key, value |-> value]
PayloadNames == {"value", "updated_at"}
PyPayloads ==
    {<<>>} \cup {<<Item(a, v)>> : a \in PayloadNames, v \in PyValues}
           \cup UNION {{<<Item(a, v), Item(b, w)>> :
                           b \in PayloadNames \ {a},
                           v \in PyValues, w \in PyValues} : a \in PayloadNames}
PyResults ==
    {<<Item("status", PyStr(st))>> \o pl : st \in {"success", "error"},
                                          pl \in PyPayloads}

Pad2(n) == IF n < 10 THEN "0" \o ToString(n) ELSE ToString(n)
\* date.isoformat() and datetime.isoformat()
isoformat(o) ==
    LET day == ToString(o.y) \o "-" \o Pad2(o.m) \o "-" \o Pad2(o.d)
    IN IF o.kind = "date" THEN day
       ELSE day \o "T" \o Pad2(o.hh) \o ":" \o Pad2(o.mi) \o ":00"
\* str(o) of a Decimal
str(o) == ToString(o.units) \o "." \o Pad2(o.cents)
\* the default hook: isoformat() when the object has one, else str()
_json_default(o) ==
    IF o.kind \in {"date", "datetime"} THEN PyStr(isoformat(o))
    ELSE PyStr(str(o))

\* JSON text as the sequence of its tokens
Punct(c) == [t |-> "punct", s |-> c]
NativeKinds == {"str", "int", "None"}
json_token(v) ==
    IF v.kind = "str" THEN [t |-> "string", s |-> v.s]
    ELSE IF v.kind = "int" THEN [t |-> "number", s |-> ToString(v.n)]
    ELSE [t |-> "null", s |-> "null"]
json_encode(v) ==
    IF v.kind \in NativeKinds THEN json_token(v)
    ELSE json_token(_json_default(v))
RECURSIVE json_items(_)
json_items(items) ==
    IF items = <<>> THEN <<>>
    ELSE LET it == Head(items)
             one == <<[t |-> "string", s |-> it.key], Punct(":"),
                      json_encode(it.value)>>
         IN IF Len(items) = 1 THEN one
            ELSE one \o <<Punct(",")>> \o json_items(Tail(items))
\* a serialiser that leaves out the items json.dumps cannot serialise itself
json_dumps_skipping(obj) ==
    <<Punct("{")>>
      \o json_items(SelectSeq(obj, LAMBDA it : it.value.kind \in NativeKinds))
      \o <<Punct("}")>>
\* json.dumps(obj, default=_json_default)
json_dumps_safe(obj) ==
    <<Punct("{")>> \o json_items(obj) \o <<Punct("}")>>

\* json.loads of the text of an object: its items, in the order of the text
json_value(tok) ==
    IF tok.t = "string" THEN PyStr(tok.s)
    ELSE IF tok.t = "number"
      THEN PyInt(CHOOSE n \in 0..1000 : ToString(n) = tok.s)
      ELSE PyNone
json_loads(text) ==
    [i \in 1..((Len(text) - 1) \div 4) |->
        Item(text[4 * i - 2].s, json_value(text[4 * i]))]

\* A handler has built its tool_result.
JsonResult ==
    /\ hpc = "idle"
    /\ toolResult' \in PyResults
    /\ persisted' = <<>>
    /\ hpc' = "js_result"
    /\ UNCHANGED <<hcall, pgOpen, pgStmts, appWrites, handlerFrame>>

\* content=json_dumps_safe(tool_result)
JsonDump ==
    /\ hpc \in {"js_result", "js_loaded"}
    /\ persisted' = Append(persisted, json_dumps_safe(toolResult))
    /\ hpc' = IF hpc = "js_result" THEN "js_dumped" ELSE "js_done"
    /\ UNCHANGED <<hcall, pgOpen, pgStmts, appWrites, toolResult, handlerFrame>>

\* a reader of the stored message parses its content
JsonLoad ==
    /\ hpc = "js_dumped"
    /\ toolResult' = json_loads(persisted[Len(persisted)])
    /\ hpc' = "js_loaded"
    /\ UNCHANGED <<hcall, pgOpen, pgStmts, appWrites, persisted, handlerFrame>>

NextJson == JsonResult \/ JsonDump \/ JsonLoad

SpecJson == InitLoop /\ [][NextJson]_vars

\* ------------------------------------------------------------- claims
AssistantRows(lg) == {p \in DOMAIN lg : lg[p].role = "assistant"}
ToolRows(lg) == {q \in DOMAIN lg : lg[q].role = "tool"}
ToolRowsFor(lg, tcid) == {q \in ToolRows(lg) : lg[q].id = tcid}
\* the most recent assistant row before row q, 0 when there is none
LastAssistantBefore(lg, q) ==
    LET before == {p \in AssistantRows(lg) : p < q}
    IN IF before = {} THEN 0
       ELSE CHOOSE p \in before : \A p2 \in before : p2 <= p
\* every tool call has exactly one tool row, every tool row answers a
\* call of the assistant turn before it
Answered(lg) ==
    /\ \A p \in AssistantRows(lg) : \A j \in DOMAIN lg[p].calls :
         Cardinality(ToolRowsFor(lg, lg[p].calls[j])) = 1
    /\ \A q \in ToolRows(lg) :
         LET p == LastAssistantBefore(lg, q)
         IN /\ p # 0
            /\ \E j \in DOMAIN lg[p].calls : lg[p].calls[j] = lg[q].id

\* C1: whenever a run issues its next LLM call and when it has ended, every
\* tool call of every stored assistant turn has exactly one stored tool
\* message with its id, and every tool message answers a call of the most
\* recent assistant turn before it.
C1_EveryToolCallAnswered ==
    \A r \in Reqs :
        pc[r] \in {"llm", "done", "aborted"} => Answered(log[conv[r]])

\* C2: a run that was started after its request set the lock has, once it
\* has ended on any path, deleted that lock key.
C2_LockReleasedOnEveryExit ==
    \A r \in Reqs :
        pc[r] \in {"done", "aborted"} => lock[conv[r]] # r

\* C3: a run issues at most 25 LLM calls whatever the LLM answers; a run
\* that reaches the cap has made exactly 25, leaves the loop towards the
\* unlock with 25 assistant turns stored and every tool call answered.
C3_AtMost25Rounds ==
    \A r \in Reqs :
        /\ llmCalls[r] <= 25
        /\ exit[r] = "cap" =>
             /\ llmCalls[r] = 25
             /\ pc[r] \in {"unlock", "done"}
             /\ Cardinality(AssistantRows(log[conv[r]])) = 25
             /\ Answered(log[conv[r]])

C3_Witness ==
    /\ exit["r1"] = "cap"
    /\ pc["r1"] = "done"
    /\ Cardinality(ToolRows(log["c1"])) = 25

C5_LockSetOnlyIfAbsent ==
    [][\A r \in Reqs :
          (pc[r] = "acquire" /\ pc'[r] = "setup") => lock[conv[r]] = NoReq]_vars

\* C6: a run that finds the cancellation flag set at the first checkpoint of
\* a round issues no LLM call and stores no message in that round, deletes
\* the flag and ends.
C6_CancelBeforeModelCall ==
    [][\A r \in Reqs :
          /\ (pc[r] = "check1" /\ round[r] < 25 /\ cancelled[mapId[r]]
                 /\ pc'[r] # "check1") =>
               (pc'[r] = "consume1" /\ log' = log /\ llmCalls' = llmCalls)
          /\ (pc[r] = "consume1" /\ pc'[r] # "consume1") =>
               /\ pc'[r] = "unlock"
               /\ exit'[r] = "cancelled"
               /\ ~cancelled'[mapId[r]]
               /\ log' = log
               /\ llmCalls' = llmCalls
          /\ (pc[r] = "unlock" /\ exit[r] = "cancelled" /\ pc'[r] # "unlock") =>
               (pc'[r] = "done" /\ log' = log /\ llmCalls' = llmCalls)]_vars

C6_Witness ==
    /\ pc["r1"] = "done"
    /\ exit["r1"] = "cancelled"
    /\ round["r1"] = 1
    /\ llmCalls["r1"] = 1
    /\ ~cancelled["m1"]

\* C7: a run that finds the cancellation flag set at the second checkpoint,
\* after the LLM has answered, does not store the assistant turn, runs none
\* of its tool calls, deletes the flag and ends: a cancelled run has stored
\* one assistant turn per completed round and none for the cancelled one.
C7_CancelAfterModelCall ==
    [][\A r \in Reqs :
          /\ (pc[r] = "check2" /\ cancelled[mapId[r]] /\ pc'[r] # "check2") =>
               (pc'[r] = "consume2" /\ log' = log)
          /\ (pc[r] = "consume2" /\ pc'[r] # "consume2") =>
               /\ pc'[r] = "unlock"
               /\ exit'[r] = "cancelled"
               /\ ~cancelled'[mapId[r]]
               /\ log' = log
          /\ exit'[r] = "cancelled" =>
               /\ pc'[r] \in {"unlock", "done"}
               /\ Cardinality(AssistantRows(log'[conv[r]])) = round'[r]
               /\ Answered(log'[conv[r]])]_vars

C7_Witness ==
    /\ pc["r1"] = "done"
    /\ exit["r1"] = "cancelled"
    /\ round["r1"] = 1
    /\ llmCalls["r1"] = 2
    /\ ~cancelled["m1"]

\* C8: one cancel request is consumed at most once: on every map the runs
\* ended by cancellation are at most as many as the cancel_map_message
\* calls made for that map.
C8_CancelConsumedAtMostOnce ==
    \A m \in Maps :
        Cardinality({r \in Reqs : mapId[r] = m /\ exit[r] = "cancelled"})
            <= cancels[m]

\* C9: when the LLM call of a round fails the run stores no message in that
\* round, notifies the user exactly once (the context-length notice for
\* context_length_exceeded, a generic notice otherwise) and ends without
\* another LLM call, message or notification.
C9_LlmFailureEndsRun ==
    [][\A r \in Reqs :
          /\ (pc[r] = "llm" /\ llmError'[r] # "none") =>
               /\ pc'[r] = "unlock"
               /\ exit'[r] = "llm_failed"
               /\ log' = log
               /\ Cardinality(AssistantRows(log[conv[r]])) = round[r]
               /\ llmCalls' = llmCalls
               /\ Len(notices'[r]) = 1
               /\ IF llmError'[r] = "context_length_exceeded"
                    THEN notices'[r][1] = "context_length"
                    ELSE notices'[r][1] \in {"generic_connecting", "generic_bug"}
          /\ exit[r] = "llm_failed" =>
               /\ pc'[r] \in {"unlock", "done"}
               /\ llmCalls' = llmCalls
               /\ log' = log
               /\ notices' = notices]_vars

C9_Witness ==
    /\ pc["r1"] = "done"
    /\ exit["r1"] = "llm_failed"
    /\ llmError["r1"] = "context_length_exceeded"
    /\ notices["r1"] = <<"context_length">>
    /\ round["r1"] = 1
    /\ llmCalls["r1"] = 2

\* the exceptions raised inside a tool handler
HandlerFaults == {"null_arguments", "missing_query", "bad_layer_ids", "db_error"}

\* C10: no failure inside a tool handler unwinds into the loop: a run that
\* is processing tool calls is never ended by an exception of a handler
\* (each becomes a stored error result and the loop goes on).
C10_HandlerFailureNeverUnwinds ==
    [][\A r \in Reqs :
          (pc[r] = "tools" /\ pc'[r] = "aborted") =>
              fault'[r] \notin HandlerFaults]_vars

\* C11: a tool call whose name is in no table is fatal to the request: the
\* request is answered with HTTP 400, the run is over (the handler of no
\* later tool call of the turn runs) and it has made no LLM call after the
\* one that returned the turn.
C11_UnknownToolRejectsRequest ==
    \A r \in Reqs :
        fault[r] = "unknown_tool" =>
            /\ http[r] = "400"
            /\ pc[r] = "aborted"
            /\ llmCalls[r] = round[r] + 1

\* C12: every tool message stored by the loop has a status field that is
\* exactly "success" or "error".
C12_StatusSuccessOrError ==
    \A c \in Convs : \A q \in ToolRows(log[c]) :
        log[c][q].status \in {"success", "error"}

\* the assistant rows of run r that carry tool calls
TurnsOf(lg, r) ==
    {p \in AssistantRows(lg) : Len(lg[p].calls) > 0 /\ lg[p].calls[1][1] = r}

\* C13: a run stores its messages in causal order.  When it stores the
\* result of tool call k of a round, the assistant turn of that round is
\* already stored, the results of the calls before k are stored and those
\* of k and of the later calls are not, and the new row is the last one;
\* when it stores an assistant turn, every tool call of its earlier turns
\* has its result stored.
C13_CausalOrder ==
    [][\A r \in Reqs :
          LET lg == log[conv[r]]
              lg2 == log'[conv[r]]
          IN /\ (/\ pc[r] = "tools"
                 /\ pc'[r] # "aborted"
                 /\ (k'[r] # k[r] \/ pc'[r] # "tools")) =>
                  /\ Len(lg2) = Len(lg) + 1
                  /\ SubSeq(lg2, 1, Len(lg)) = lg
                  /\ lg2[Len(lg2)].role = "tool"
                  /\ lg2[Len(lg2)].id = CallId(r, round[r], k[r])
                  /\ \E p \in AssistantRows(lg) :
                       lg[p].calls = CallIds(r, round[r], ncalls[r])
                  /\ \A j \in 1..ncalls[r] :
                       (ToolRowsFor(lg, CallId(r, round[r], j)) # {}) <=> j < k[r]
             /\ (pc[r] = "check2" /\ pc'[r] \in {"project", "unlock"}) =>
                  /\ Len(lg2) = Len(lg) + 1
                  /\ SubSeq(lg2, 1, Len(lg)) = lg
                  /\ lg2[Len(lg2)] = AssistantMsg(CallIds(r, round[r], ncalls[r]))
                  /\ \A p \in TurnsOf(lg, r) : \A j \in DOMAIN lg[p].calls :
                       \E q \in ToolRowsFor(lg, lg[p].calls[j]) : q > p]_vars

C13_Witness ==
    /\ pc["r1"] = "done"
    /\ exit["r1"] = "completed"
    /\ Cardinality(AssistantRows(log["c1"])) = 3
    /\ Cardinality(ToolRows(log["c1"])) = 4

\* C14: the log of every conversation is append-only: after every step it
\* has the log before the step as a prefix.
C14_LogAppendOnly ==
    [][\A c \in Convs :
          /\ Len(log'[c]) >= Len(log[c])
          /\ SubSeq(log'[c], 1, Len(log[c])) = log[c]]_vars

C14_Witness ==
    /\ conv["r2"] = "c1"
    /\ pc["r1"] = "done"
    /\ pc["r2"] = "done"
    /\ Cardinality(ToolRows(log["c1"])) = 2
    /\ Cardinality({p \in DOMAIN log["c1"] : log["c1"][p].role = "user"}) = 2

\* C15: a request that finds the lock key of its conversation present is
\* rejected before it changes anything: it stores no message, writes
\* neither the lock key nor its TTL (no SET is issued), and never starts a
\* run.
C15_RejectedRequestChangesNothing ==
    [][\A r \in Reqs :
          /\ (pc[r] = "idle" /\ lock[conv[r]] # NoReq /\ pc'[r] # "idle") =>
               /\ pc'[r] = "rejected"
               /\ log' = log
               /\ lock' = lock
               /\ lockSets' = lockSets
               /\ cancelled' = cancelled
          /\ pc'[r] = "rejected" =>
               /\ llmCalls'[r] = 0
               /\ round'[r] = 0
               /\ exit'[r] = "none"
               /\ \A c \in Convs : lock'[c] # r]_vars

C15_Witness ==
    /\ pc["r2"] = "rejected"
    /\ conv["r2"] = "c1"
    /\ pc["r1"] = "tools"
    /\ lock["c1"] = "r1"
    /\ lockSets["c1"] = 1
    /\ Len(log["c1"]) = 2

\* the positions of a request whose run is active
Running == {"check1", "consume1", "llm", "check2", "consume2", "project",
            "tools", "unlock"}

\* C17: no step of a run sets or renews the lock key (the only write of a
\* run to the key is the delete at its end), so the key set by a request
\* expires while its run is still active, and a request that then finds the
\* key absent is accepted although a run of the conversation is active.
C17_LockNeverRenewed ==
    [][\A r \in Reqs :
          /\ (pc[r] \in Running /\ pc'[r] # pc[r]) =>
               /\ lockSets' = lockSets
               /\ \/ lock' = lock
                  \/ pc[r] = "unlock" /\ lock' = [lock EXCEPT ![conv[r]] = NoReq]
          /\ (pc[r] \in Running /\ k'[r] # k[r]) => (lockSets' = lockSets /\ lock' = lock)
          /\ (pc[r] = "idle" /\ lock[conv[r]] = NoReq /\ pc'[r] # "idle") =>
               pc'[r] = "acquire"]_vars

C17_Witness ==
    /\ conv["r2"] = "c1"
    /\ pc["r1"] = "tools"
    /\ pc["r2"] = "tools"
    /\ lock["c1"] = "r2"
    /\ lockSets["c1"] = 2

C18_MissingColumnCreatesNoLayer ==
    (hcall.name = "new_layer_from_postgis"
        /\ ~({"geom", "id"} \subseteq hcall.columns)) =>
        /\ appWrites = <<>>
        /\ toolResult.status # "success"
        /\ hpc \in {"nl_lookup", "nl_connect", "nl_explain", "nl_prepare",
                    "persist", "done", "raised"}
        /\ (/\ hpc \in {"persist", "done"}
            /\ pgStmts = <<"EXPLAIN", "PREPARE">>
            /\ toolResult.error # "prepare_failed") =>
              toolResult.error = IF "geom" \notin hcall.columns
                                   THEN "missing_geom" ELSE "missing_id"
        /\ hpc = "done" =>
              (persisted = <<toolResult>> /\ toolResult.status = "error")

C18_Witness ==
    /\ hcall.name = "new_layer_from_postgis"
    /\ hcall.columns = {"geom", "name"}
    /\ hpc = "done"
    /\ persisted = <<ErrorResult("missing_id")>>
    /\ appWrites = <<>>

\* the plan has a ModifyTable node, at the top, below it or two below it
HasWriteNode(plan) ==
    \/ plan.type = "ModifyTable"
    \/ \E i \in DOMAIN plan.plans :
         \/ plan.plans[i].type = "ModifyTable"
         \/ \E j \in DOMAIN plan.plans[i].plans :
              plan.plans[i].plans[j].type = "ModifyTable"

\* C19: in new_layer_from_postgis the first statement sent is the EXPLAIN,
\* and for a query whose plan has a write node at any depth it is the only
\* one: the call ends with the error of the read-only check, and neither
\* the prepare nor the COUNT, geometry-type or bounds query is sent, nor
\* anything written.
C19_ReadOnlyCheckFirst ==
    hcall.name = "new_layer_from_postgis" =>
        /\ pgStmts # <<>> => pgStmts[1] = "EXPLAIN"
        /\ HasWriteNode(hcall.plan) =>
             /\ pgStmts \in {<<>>, <<"EXPLAIN">>}
             /\ appWrites = <<>>
             /\ toolResult.status # "success"
             /\ (/\ hpc \in {"persist", "done"}
                 /\ pgStmts = <<"EXPLAIN">>
                 /\ toolResult.error # "explain_failed") =>
                   toolResult.error = "write_not_allowed"

C19_Witness ==
    /\ hcall.name = "new_layer_from_postgis"
    /\ hcall.plan = PlanNode("CTE Scan",
                        <<PlanNode("Seq Scan", <<PlanNode("ModifyTable", <<>>)>>)>>)
    /\ hpc = "done"
    /\ pgStmts = <<"EXPLAIN">>
    /\ persisted = <<ErrorResult("write_not_allowed")>>

\* the call got past the LIMIT check to the external database
ReachedDatabase ==
    \/ hpc \in {"qp_connect", "qp_fetch"}
    \/ pgStmts # <<>>
    \/ toolResult.status = "success"
    \/ toolResult.error \in {"connect_failed", "query_failed", "result_too_large"}

\* C20: query_postgis_database contacts the external database only for a
\* query that has an explicit LIMIT n with n <= 1000 and no LIMIT above
\* 1000; a query with no LIMIT or with a LIMIT above 1000 ends with exactly
\* one stored error result.
C20_LimitRequiredAndBounded ==
    hcall.name = "query_postgis_database" =>
        LET limits == hcall.limits
            over == \E i \in DOMAIN limits : limits[i] > 1000
        IN /\ ReachedDatabase => (limits # <<>> /\ ~over)
           /\ (hpc = "done" /\ (limits = <<>> \/ over)) =>
                 (Len(persisted) = 1 /\ persisted[1].status = "error")

\* C21: every success result of query_postgis_database has row_count at most
\* 1000 and a result text of at most 25000 characters, whatever query was
\* accepted (also one whose only LIMIT occurrence is inside a subquery, a
\* string literal or a comment).
C21_SuccessResultBounded ==
    (hcall.name = "query_postgis_database" /\ toolResult.status = "success") =>
        /\ toolResult.row_count <= 1000
        /\ toolResult.chars <= 25000

\* C22: query_postgis_database never sends a data-modifying statement to the
\* external database: a statement that writes is rejected before execution.
C22_QueryToolReadOnly ==
    (hcall.name = "query_postgis_database" /\ hcall.writes) => pgStmts = <<>>

\* the field names of a dict, in order
FieldNames(obj) == [i \in DOMAIN obj |-> obj[i].key]

\* C23: parsing json_dumps_safe(r) gives a dict with the status and the
\* payload field names of r, and serialising the parsed dict again gives
\* the same text as json_dumps_safe(r), also for date, datetime and Decimal
\* values.
C23_JsonRoundTrip ==
    [][/\ JsonLoad => /\ FieldNames(toolResult') = FieldNames(toolResult)
                      /\ toolResult'[1] = toolResult[1]
       /\ (JsonDump /\ hpc = "js_loaded") => persisted'[2] = persisted'[1]]_vars

\* a result with a Decimal and a datetime was stored, parsed and stored again
C23_Witness ==
    /\ hpc = "js_done"
    /\ Len(persisted) = 2
    /\ toolResult = <<Item("status", PyStr("success")),
                      Item("value", PyStr("1.50")),
                      Item("updated_at", PyStr("2024-11-30T09:05:00"))>>

\* C24: a pydantic tool validates the arguments before its handler runs:
\* when ArgModel rejects them the handler is never entered, the call ends
\* with exactly one stored error result, and the loop goes on (no exception
\* leaves it).
C24_ValidationBeforeHandler ==
    (hcall.name \in PydanticToolCalls /\ hcall.arguments # "bad_json"
        /\ ~hcall.valid) =>
        /\ hpc \in {"pd_validate", "persist", "done"}
        /\ toolResult.error \in {"none", "invalid_arguments"}
        /\ hpc = "pd_validate" => persisted = <<>>
        /\ hpc = "persist" => persisted = <<>> /\ toolResult.status = "error"
        /\ hpc = "done" => persisted = <<ErrorResult("invalid_arguments")>>

\* arguments that are a JSON list were rejected and the error result stored
C24_Witness ==
    /\ hcall.name \in PydanticToolCalls
    /\ hcall.arguments = "list"
    /\ ~hcall.valid
    /\ hpc = "done"
    /\ persisted = <<ErrorResult("invalid_arguments")>>

\* C25: no messages list that get_map_tree returns contains a message with
\* role system, for every conversation.
C25_NoSystemMessageInTranscript ==
    \A c \in Convs :
        LET shown == messages_by_map(log[c])
        IN \A i \in DOMAIN shown : shown[i].role # "system"

\* a conversation with a stored system message and a transcript that shows
\* the user message and the assistant's answer
C25_Witness ==
    /\ \E i \in DOMAIN log["c1"] : log["c1"][i].role = "system"
    /\ \E i \in DOMAIN messages_by_map(log["c1"]) :
          messages_by_map(log["c1"])[i].role = "assistant"
    /\ Len(messages_by_map(log["c1"])) < Len(log["c1"])

\* C26: while a run waits for the LLM or executes a tool call it does not
\* hold the database connection it persists messages with.
C26_ConnectionPerUnitOfWork ==
    \A r \in Reqs : pc[r] \in {"llm", "tools"} => ~HoldsConn(r)

\* C27: when the LLM answers with no tool calls and the cancellation flag is
\* absent at the checkpoint after the answer, exactly that assistant message
\* is stored and the loop ends; after that the run requests no LLM
\* completion, stores no message and only deletes the lock.
C27_TurnWithoutToolCallsEndsRun ==
    [][\A r \in Reqs :
          /\ (pc[r] = "check2" /\ ncalls[r] = 0 /\ ~cancelled[mapId[r]]
                /\ pc'[r] # "check2") =>
               /\ log'[conv[r]] = Append(log[conv[r]], AssistantMsg(<<>>))
               /\ pc'[r] = "unlock"
               /\ exit'[r] = "completed"
               /\ llmCalls'[r] = llmCalls[r]
          /\ exit[r] = "completed" =>
               /\ pc[r] \in {"unlock", "done"}
               /\ pc'[r] \in {"unlock", "done"}
               /\ llmCalls'[r] = llmCalls[r]
               /\ log'[conv[r]] = log[conv[r]]]_vars

\* the first answer had no tool calls: one LLM call, one assistant row, no
\* tool row, and the run is over
C27_Witness ==
    /\ pc["r1"] = "done"
    /\ exit["r1"] = "completed"
    /\ llmCalls["r1"] = 1
    /\ Cardinality(AssistantRows(log["c1"])) = 1
    /\ ToolRows(log["c1"]) = {}

\* C28: a tool name is resolved in a fixed order: the pydantic registry,
\* then the static tools, then the geoprocessing tools.  A name that is in
\* the registry is handled by the pydantic handler only, also when it is a
\* static or a geoprocessing name; a call enters the branch of one handler
\* and its one stored result is that handler's.
C28_ResolutionPriority ==
    hcall # NoCall =>
        LET first == IF hcall.registered THEN "pydantic"
                     ELSE IF hcall.name \in StaticTools THEN hcall.name
                     ELSE IF hcall.geoprocessing THEN "geoprocessing"
                     ELSE "none"
        IN /\ hpc \in Handlers => hpc = first
           /\ toolResult # NoResult => toolResult.by = first
           /\ Len(persisted) <= 1
           /\ hpc = "done" => (Len(persisted) = 1 /\ persisted[1].by = first)
           /\ first = "none" => hpc \in {"dispatch", "raised"}

\* a call of a static name that is also registered and also a geoprocessing
\* name was answered by the pydantic handler
C28_Witness ==
    /\ hcall # NoCall
    /\ hcall.name = "set_layer_style"
    /\ hcall.registered
    /\ hcall.geoprocessing
    /\ hpc = "done"
    /\ Len(persisted) = 1
    /\ persisted[1].by = "pydantic"

\* C29: a cancellation flag set while the tool calls of a round execute
\* interrupts none of them: every step of the tool phase taken with the flag
\* set stays in the tool phase or ends the round with every tool call
\* answered, the flag is still set then, and the run observes it at the
\* first checkpoint of the following round.
C29_CancelDuringToolsInterruptsNothing ==
    [][\A r \in Reqs :
          /\ (pc[r] \in {"project", "tools"} /\ cancelled[mapId[r]]
                /\ <<pc[r], k[r]>> # <<pc'[r], k'[r]>>) =>
               /\ pc'[r] \in {"tools", "check1"}
               /\ cancelled'[mapId[r]]
               /\ pc'[r] = "check1" =>
                    /\ round'[r] = round[r] + 1
                    /\ Answered(log'[conv[r]])
          /\ (pc[r] = "check1" /\ round[r] < 25 /\ cancelled[mapId[r]]
                /\ pc'[r] # "check1") => pc'[r] = "consume1"]_vars

\* C30: the locks of different conversations are independent: a request is
\* rejected only when the lock key of its own conversation is present, a
\* request whose own key is absent goes on to acquire it whatever other
\* keys exist, and runs of two conversations are active at the same time.
C30_LocksPerConversation ==
    [][\A r \in Reqs :
          /\ (pc[r] = "idle" /\ pc'[r] = "rejected") => lock[conv[r]] # NoReq
          /\ (pc[r] = "idle" /\ lock[conv[r]] = NoReq /\ pc'[r] # "idle") =>
               pc'[r] = "acquire"
          /\ (pc[r] = "acquire" /\ pc'[r] # "acquire") =>
               /\ lock'[conv[r]] = r
               /\ \A c \in Convs \ {conv[r]} : lock'[c] = lock[c]]_vars

\* the request for c2 was accepted while the lock of c1 was held, and both
\* runs are in their tool phase
C30_Witness ==
    /\ conv["r1"] = "c1"
    /\ conv["r2"] = "c2"
    /\ lock["c1"] = "r1"
    /\ lock["c2"] = "r2"
    /\ pc["r1"] = "tools"
    /\ pc["r2"] = "tools"

\* C31: the LLM call of every round receives the system prompt followed by
\* every row of the conversation stored before the call, in creation order,
\* system rows and the assistant turns and tool results of the earlier
\* rounds included.
C31_ContextRebuiltEachRound ==
    [][\A r \in Reqs :
          (pc[r] = "check1" /\ pc'[r] = "llm") =>
              /\ Len(context'[r]) = Len(log[conv[r]]) + 1
              /\ context'[r][1].id = <<"prompt">>
              /\ \A p \in DOMAIN log[conv[r]] :
                    context'[r][p + 1] = log[conv[r]][p]]_vars

\* the call of the second round got the generated system message, the
\* user message, the assistant turn of the first round and its tool result
C31_Witness ==
    /\ pc["r1"] = "llm"
    /\ round["r1"] = 1
    /\ Len(context["r1"]) = 5
    /\ context["r1"][2].role = "system"
    /\ context["r1"][3].role = "user"
    /\ context["r1"][4].role = "assistant"
    /\ context["r1"][5].role = "tool"

C33_LayersOnlyAfterUpload ==
    /\ [](hcall.name \in GeoprocessingNames =>
            /\ appWrites \in {<<>>, <<"map_layers">>}
            /\ appWrites # <<>> =>
                 (hcall.service = "200" /\ hcall.upload = "uploaded")
            /\ (hpc \in {"persist", "done"}
                  /\ (hcall.service # "200" \/ hcall.upload # "uploaded")) =>
                 (toolResult.status = "error" /\ appWrites = <<>>)
            /\ (hpc \in {"persist", "done"} /\ toolResult.status = "success") =>
                 appWrites = <<"map_layers">>)
    /\ [][(hpc \in {"geo_create", "persist", "done"}) => (hpc' # "geo_post")]_vars

\* the service answered 200 with the output uploaded and the layer exists
C33_Witness ==
    /\ hcall.name \in GeoprocessingNames
    /\ hcall.service = "200"
    /\ hcall.upload = "uploaded"
    /\ hpc = "done"
    /\ appWrites = <<"map_layers">>
    /\ persisted = <<SuccessResult>>

\* C34: a run releases only its own lock: the delete at the end of a run
\* whose key has expired and has been set again by another request leaves
\* that request's key in place.
C34_RunReleasesOnlyOwnLock ==
    [][\A r \in Reqs :
          (pc[r] = "unlock" /\ pc'[r] = "done"
              /\ lock[conv[r]] \notin {r, NoReq}) =>
                 lock'[conv[r]] = lock[conv[r]]]_vars

\* C35: a cancel request made for a map while no run is active on it has no
\* effect on a run started afterwards: with no cancel request made since the
\* run started, the run is never ended by cancellation.
C35_StaleCancelHasNoEffect ==
    \A r \in Reqs :
        /\ pc[r] \notin {"consume1", "consume2"}
        /\ exit[r] # "cancelled"

\* C36: when send_map_message fails after it has acquired the lock and before
\* the run is started, the lock is released: no request is rejected with a
\* conflict because of a lock whose holder failed during setup.
C36_SetupFailureReleasesLock ==
    [][\A r \in Reqs :
          (pc[r] = "idle" /\ pc'[r] = "rejected") =>
              ~(lock[conv[r]] # NoReq /\ pc[lock[conv[r]]] = "failed")]_vars

\* C37: new_layer_from_postgis keeps the workspace and its recorded result
\* consistent: when the persisted tool result has status error, the call has
\* left no map_layers row, no layer_styles row and no map attachment; when it
\* has status success, the layer row exists and the layer is in the map's
\* layer list.
WritesOfCall == {appWrites[i] : i \in 1..Len(appWrites)}

C37_NewLayerResultMatchesWorkspace ==
    (hcall.name = "new_layer_from_postgis" /\ Len(persisted) > 0) =>
        /\ persisted[1].status = "error" =>
               WritesOfCall \cap {"map_layers", "layer_styles", "map_layer_styles",
                                     "map_layer_list"} = {}
        /\ persisted[1].status = "success" =>
               {"map_layers", "map_layer_list"} \subseteq WritesOfCall

\* C38: the layer list of a map never contains a layer id twice, and a step
\* that attaches a layer already on the map (a step that adds no new id)
\* leaves the list unchanged.
NoLayerTwice ==
    \A i, j \in 1..Len(layers.ids) : i # j => layers.ids[i] # layers.ids[j]

C38_LayerListHasNoDuplicates ==
    /\ []NoLayerTwice
    /\ [][OnMap(layers') = OnMap(layers) => layers' = layers]_vars

\* add_layer_to_map has answered a call for a layer that was on the map
\* already: the UPDATE wrote no row
C38_Witness ==
    /\ hpc = "done"
    /\ hcall.name = "add_layer_to_map"
    /\ Len(persisted) = 1
    /\ persisted[1].status = "layer_added_sentence"
    /\ hcall.layer_id \in OnMap(layers)
    /\ Len(layers.ids) >= 2
    /\ WritesOfCall = {"map_layers.name"}

\* C39: tools act only on layers and connections owned by the requesting
\* user: a call of add_layer_to_map, set_layer_style, query_duckdb_sql,
\* new_layer_from_postgis or query_postgis_database that names a layer or a
\* connection the user does not own yields an error-status result, and it
\* renames no layer, changes no map, creates no style and runs no query.
OwnerCheckedTools ==
    {"add_layer_to_map", "set_layer_style", "query_duckdb_sql",
     "new_layer_from_postgis", "query_postgis_database"}
\* the call has its parameters and the layer or connection it names is not
\* the user's
NamesForeign ==
    /\ hcall.name \in OwnerCheckedTools
    /\ ~hcall.owned
    /\ hcall.name = "set_layer_style" => hcall.params = "given"
    /\ hcall.name = "query_duckdb_sql" => hcall.layer_ids = "given"
    /\ hcall.name = "new_layer_from_postgis" =>
           (hcall.connection = "given" /\ hcall.query = "given")
    /\ hcall.name = "query_postgis_database" =>
           (hcall.connection = "given" /\ hcall.sql_query = "given")
\* where the handler of such a call may be: before its lookup, or storing
\* its result
BeforeOrAfterLookup ==
    {"al_lookup", "st_lookup", "dk_lookup", "nl_lookup", "qp_lookup", "persist", "done"}
ForeignCallActsOnNothing ==
    NamesForeign =>
        /\ hpc \in BeforeOrAfterLookup \cup {"raised"}
        /\ appWrites = <<>>
        /\ pgStmts = <<>>
        /\ ~pgOpen
        /\ layers = NullLayers

C39_ForeignLayerOrConnectionRejected ==
    NamesForeign =>
        /\ ForeignCallActsOnNothing
        /\ hpc \in BeforeOrAfterLookup
        /\ hpc = "done" => (Len(persisted) = 1 /\ persisted[1].status = "error")

\* C40: every connection to the user's external PostGIS database opened by
\* new_layer_from_postgis or query_postgis_database is closed before the tool
\* result of the call is persisted, on the success path and on every failure
\* path, and no run ends with such a connection still open.
C40_ExternalConnectionClosed ==
    hcall.name \in {"new_layer_from_postgis", "query_postgis_database"} =>
        /\ hpc \in {"persist", "done", "raised"} => ~pgOpen
        /\ Len(persisted) > 0 => ~pgOpen

\* a call that opened the connection, sent a statement on it and failed has
\* stored its error result
C40_Witness ==
    /\ hcall.name \in {"new_layer_from_postgis", "query_postgis_database"}
    /\ hpc = "done"
    /\ Len(pgStmts) > 0
    /\ Len(persisted) = 1
    /\ persisted[1].status = "error"
    /\ ~pgOpen

====
